---- MODULE Spec2Model ----
(***************************************************************************)
(* Model of the pipeline runtime: the bounded string queue                 *)
(* (plugins/sync/consumer_producer.c), the stage worker                    *)
(* (plugins/plugin_common.c) and the driver (main).                        *)
(*                                                                         *)
(* A string is a sequence of one-character strings.  Every access to a     *)
(* queue's fields happens with the queue's mutex held, so a critical       *)
(* section between two pthread_cond_wait calls is one step.                *)
(***************************************************************************)
EXTENDS Integers, Sequences, FiniteSets, TLC

\* ------------------------------------------------------------------ bounds
MaxCap == 2          \* largest queue capacity in the queue-level specification
MaxItems == 3        \* most put calls issued by the queue clients
MaxOps == 4          \* most get / signal_finished / wait_finished calls issued by the queue clients
MaxCalls == 5        \* most calls issued by the queue clients in the fair specification
NumClients == 2      \* threads using the queue in the queue-level specification
MaxStages == 2       \* longest pipeline
MaxLines == 2        \* longest standard input, in lines
MaxQueueSize == 1    \* largest queue size given to the pipeline
MaxMonitorOps == 5   \* most monitor_signal / monitor_reset / monitor_wait calls

\* --------------------------------------------------------------- constants
NULL == <<"NULL">>                       \* the null pointer: differs from every string
END == <<"<", "E", "N", "D", ">">>       \* the literal "<END>"
NoNext == 0                              \* next_place_work == NULL
Driver == 0                              \* the thread running main(); the worker of stage i is thread i
QueueFinished == <<"Queue finished">>            \* error literals of consumer_producer_put;
ZeroCapacity == <<"Queue has zero capacity">>    \* no payload equals one of them
Success == <<"0">>                               \* the int 0 returned by consumer_producer_wait_finished
Shutdown == <<"main", <<"Pipeline shutdown complete.">>>>   \* the line printed at part_000:320
NoContext == 0                           \* g_context == NULL
NotInitialized == <<"Plugin not initialized">>   \* plugin_common.c:189, 217, 258
Sink == -1                               \* next_place_work == sink_next (test_plugin_common.c:112)
SinkCap == 8                             \* sink_reset(8, ...): the lines the sink can record
DownstreamError == <<"downstream error">>        \* test_plugin_common.c:116
NoTest == [inits |-> 0, placed |-> 0]     \* outside the unit tests
NoSink == [lines |-> <<>>, saw_end |-> FALSE, fail_on_index |-> -1]   \* g_sink after sink_reset(cap, -1)
QueueSizeError == <<"main", <<"Error: Queue size must be positive">>>>   \* part_000:276
Usage == <<"main", <<"Usage: ./analyzer <queue_size> <plugin1> <plugin2> ... <pluginN>">>>>   \* part_000:250-264

VARIABLES
    \* consumer_producer_t, one per queue
    capacity, items, head, tail, count, finished,
    signaled,        \* finished_monitor.signaled
    waiting,         \* threads sleeping in pthread_cond_wait on the queue's condition
    \* per thread
    pc,              \* position inside a queue operation, "ret" when in the caller, "exit" when the thread has returned
    at,              \* position of the caller
    tq,              \* queue the thread's current operation works on
    new_item,        \* consumer_producer_put's duplicate of its argument
    ret,             \* value returned by the thread's last queue operation
    \* per stage (plugin_context_t and the driver's plugin_t)
    name, next_place_work, initialized,
    handle,          \* per stage (plugin_t): the library image dlopen returned for it
    \* driver
    input,           \* the lines fgets has returned from standard input so far
    pos,             \* number of lines read so far
    idx,             \* the loop variable i of wait_for_completion and fini_plugins
    stdout,          \* lines written to standard output, <<writer, text>>
    stderr,          \* lines written to standard error
    \* history
    putLog,          \* per queue: <<thread, item, result>> of every put that returned, in order
    getLog,          \* per queue: <<thread, value>> of every get that returned, in order
    finSnap,         \* per queue, taken when finished was first set: the pending items, the number
                     \* of puts and gets returned so far, and the threads asleep in put and in get
    nPut, nOps,      \* calls issued so far by the queue clients
    nStarted,        \* number of queue clients that have made a call
    monLog,          \* the calls and returns of the monitor operations, in order
    \* per library image
    g_context,       \* plugin_common.c:9, the image's static context pointer: a context or NoContext
    \* the process
    argv,            \* the command line after the program name
    exit_code,       \* <<>> while main runs, <<c>> once it has returned c
    \* the unit tests of a stage's interface
    test,            \* the calls the test makes: how many common_plugin_init, how many plugin_place_work
    g_sink           \* the recording forward handle of test_plugin_common.c

qvars == <<capacity, items, head, tail, count, finished, signaled, waiting>>
tvars == <<pc, at, tq, new_item, ret>>
svars == <<name, next_place_work, initialized, handle>>
dvars == <<input, pos, idx, stdout, stderr>>
hvars == <<putLog, getLog, finSnap, nPut, nOps, nStarted, monLog>>
uvars == <<g_context, argv, exit_code, test, g_sink>>
vars == <<qvars, tvars, svars, dvars, hvars, uvars>>

\* ---------------------------------------------------------- bounded queue
\* the slots head, head+1, ... (mod capacity) that hold the queued items
Pending(k) == [i \in 1..count[k] |-> items[k][(head[k] + i - 1) % capacity[k]]]

\* lines 93 and 137 left out
zero_capacity_unchecked(k) == FALSE

\* consumer_producer_put and consumer_producer_get: the test of lines 93 and 137
zero_capacity(k) == capacity[k] = 0

\* line 100 left out: put never waits
put_must_wait_never(k) == FALSE

\* line 100 with the capacity test off by one
put_must_wait_off_by_one(k) == count[k] = capacity[k] + 1 /\ ~finished[k]

\* line 100 with the producer kept out while the consumer of the queue handles an item
put_must_wait_while_busy(k) ==
    (count[k] = capacity[k] \/ (k \in DOMAIN pc /\ pc[k] = "ret" /\ at[k] = "got")) /\ ~finished[k]

\* consumer_producer_put: the loop condition of line 100
put_must_wait(k) == count[k] = capacity[k] /\ ~finished[k]

\* line 105 left out
put_rejects_never(k) == FALSE

\* consumer_producer_put: the test of line 105
put_rejects(k) == finished[k]

\* line 143 left out: get never waits
get_must_wait_never(k) == FALSE

\* line 143 without the test of the finished flag
get_must_wait_ignores_finished(k) == count[k] = 0

\* consumer_producer_get: the loop condition of line 143
get_must_wait(k) == count[k] = 0 /\ ~finished[k]

\* line 148 testing the finished flag as well
get_no_item_when_finished(k) == count[k] = 0 \/ finished[k]

\* consumer_producer_get: the test of line 148
get_no_item(k) == count[k] = 0

\* lines 113 and 156 left out: head and tail never move
advance_stuck(i, k) == i

\* lines 113 and 156 without the wrap-around
advance_no_wrap(i, k) == IF i + 1 < capacity[k] THEN i + 1 ELSE i

\* the wrap-around of lines 113 and 156
advance(i, k) == (i + 1) % capacity[k]

\* lines 117, 160 and 177 left out: nobody is woken
Broadcast_left_out(k) == UNCHANGED waiting

\* pthread_cond_signal in the place of pthread_cond_broadcast: one sleeper is woken
Broadcast_wakes_one(k) ==
    waiting' = [waiting EXCEPT ![k] = IF @ = {} THEN {} ELSE @ \ {CHOOSE t \in @ : TRUE}]

\* pthread_cond_broadcast on the queue's condition
Broadcast(k) == waiting' = [waiting EXCEPT ![k] = {}]

\* pthread_cond_wait: the caller joins the waiters and releases the mutex
CondWait(k, t, waitpc) ==
    /\ waiting' = [waiting EXCEPT ![k] = @ \cup {t}]
    /\ pc' = [pc EXCEPT ![t] = waitpc]
    /\ tq' = [tq EXCEPT ![t] = k]

\* the operation returns v to its caller
Return(t, k, v) ==
    /\ pc' = [pc EXCEPT ![t] = "ret"]
    /\ tq' = [tq EXCEPT ![t] = k]
    /\ ret' = [ret EXCEPT ![t] = v]

\* consumer_producer_put, lines 83-120: thread t runs the critical section
\* with the duplicate x of its argument, on entry or after a wake-up
put_cs(t, k, x, entry) ==
    IF entry /\ zero_capacity(k) THEN
        /\ Return(t, k, ZeroCapacity)
        /\ new_item' = [new_item EXCEPT ![t] = NULL]
        /\ putLog' = [putLog EXCEPT ![k] = Append(@, <<t, x, ZeroCapacity>>)]
        /\ UNCHANGED qvars
    ELSE IF put_must_wait(k) THEN
        /\ CondWait(k, t, "put_wait")
        /\ new_item' = [new_item EXCEPT ![t] = x]
        /\ UNCHANGED <<capacity, items, head, tail, count, finished, signaled, ret, putLog>>
    ELSE IF put_rejects(k) THEN
        /\ Return(t, k, QueueFinished)
        /\ new_item' = [new_item EXCEPT ![t] = NULL]
        /\ putLog' = [putLog EXCEPT ![k] = Append(@, <<t, x, QueueFinished>>)]
        /\ UNCHANGED qvars
    ELSE
        /\ items' = [items EXCEPT ![k][tail[k]] = x]
        /\ tail' = [tail EXCEPT ![k] = advance(tail[k], k)]
        /\ count' = [count EXCEPT ![k] = @ + 1]
        /\ Broadcast(k)
        /\ Return(t, k, NULL)
        /\ new_item' = [new_item EXCEPT ![t] = NULL]
        /\ putLog' = [putLog EXCEPT ![k] = Append(@, <<t, x, NULL>>)]
        /\ UNCHANGED <<capacity, head, finished, signaled>>

\* consumer_producer_get, lines 132-163
get_cs(t, k, entry) ==
    IF entry /\ zero_capacity(k) THEN
        /\ Return(t, k, NULL)
        /\ getLog' = [getLog EXCEPT ![k] = Append(@, <<t, NULL>>)]
        /\ UNCHANGED qvars
    ELSE IF get_must_wait(k) THEN
        /\ CondWait(k, t, "get_wait")
        /\ UNCHANGED <<capacity, items, head, tail, count, finished, signaled, ret, getLog>>
    ELSE IF get_no_item(k) THEN
        /\ Return(t, k, NULL)
        /\ getLog' = [getLog EXCEPT ![k] = Append(@, <<t, NULL>>)]
        /\ UNCHANGED qvars
    ELSE
        /\ items' = [items EXCEPT ![k][head[k]] = NULL]
        /\ head' = [head EXCEPT ![k] = advance(head[k], k)]
        /\ count' = [count EXCEPT ![k] = @ - 1]
        /\ Broadcast(k)
        /\ Return(t, k, items[k][head[k]])
        /\ getLog' = [getLog EXCEPT ![k] = Append(@, <<t, items[k][head[k]]>>)]
        /\ UNCHANGED <<capacity, tail, finished, signaled>>

\* line 176 written as a toggle of the flag
signal_finished_cs_toggle(k) ==
    /\ finished' = [finished EXCEPT ![k] = ~@]
    /\ Broadcast(k)
    /\ signaled' = [signaled EXCEPT ![k] = TRUE]
    /\ finSnap' = finSnap
    /\ UNCHANGED <<capacity, items, head, tail, count>>

\* consumer_producer_signal_finished, lines 174-181.  Line 181 sets
\* finished_monitor.signaled under that monitor's own mutex; no operation
\* of the queue reads it.
signal_finished_cs(k) ==
    /\ finished' = [finished EXCEPT ![k] = TRUE]
    /\ Broadcast(k)
    /\ signaled' = [signaled EXCEPT ![k] = TRUE]
    /\ finSnap' = IF finished[k] THEN finSnap
                  ELSE [finSnap EXCEPT ![k] =
                            [pending |-> Pending(k),
                             puts |-> Len(putLog[k]),
                             gets |-> Len(getLog[k]),
                             putSleepers |-> {t \in waiting[k] : pc[t] = "put_wait"},
                             getSleepers |-> {t \in waiting[k] : pc[t] = "get_wait"}]]
    /\ UNCHANGED <<capacity, items, head, tail, count>>

\* lines 193-202 without the loop of lines 197-199: the call returns at once
wait_finished_cs_no_wait(t, k, entry) ==
    /\ Return(t, k, Success)
    /\ UNCHANGED <<capacity, items, head, tail, count, finished, signaled, waiting>>

\* consumer_producer_wait_finished, lines 193-202
wait_finished_cs(t, k, entry) ==
    /\ IF ~finished[k] THEN
            /\ CondWait(k, t, "wf_wait")
            /\ UNCHANGED ret
       ELSE
            /\ Return(t, k, Success)
            /\ UNCHANGED waiting
    /\ UNCHANGED <<capacity, items, head, tail, count, finished, signaled>>

\* thread t has been woken from pthread_cond_wait inside the operation
Woken(t, waitpc) == t \in DOMAIN pc /\ pc[t] = waitpc /\ t \notin waiting[tq[t]]

\* a producer woken in consumer_producer_put re-evaluates line 100
PutWake(t) ==
    /\ Woken(t, "put_wait")
    /\ put_cs(t, tq[t], new_item[t], FALSE)
    /\ UNCHANGED <<at, svars, dvars, getLog, finSnap, nPut, nOps, nStarted, monLog, uvars>>

\* a consumer woken in consumer_producer_get re-evaluates line 143
GetWake(t) ==
    /\ Woken(t, "get_wait")
    /\ get_cs(t, tq[t], FALSE)
    /\ UNCHANGED <<at, new_item, svars, dvars, putLog, finSnap, nPut, nOps, nStarted, monLog, uvars>>

\* a thread woken in consumer_producer_wait_finished re-evaluates line 197
WaitFinishedWake(t) ==
    /\ Woken(t, "wf_wait")
    /\ wait_finished_cs(t, tq[t], FALSE)
    /\ UNCHANGED <<at, new_item, svars, dvars, hvars, uvars>>

\* pthread_cond_wait may return without a broadcast
SpuriousWakeup(t) ==
    /\ t \in DOMAIN pc
    /\ tq[t] \in DOMAIN waiting
    /\ t \in waiting[tq[t]]
    /\ waiting' = [waiting EXCEPT ![tq[t]] = @ \ {t}]
    /\ UNCHANGED <<capacity, items, head, tail, count, finished, signaled, tvars, svars,
                   dvars, hvars, uvars>>

\* ------------------------------------------------ queue-level specification
\* One queue, consumer_producer_init(&q, c) done, used by NumClients threads
\* that call put, get, signal_finished and wait_finished in any order.
Clients == 0 .. NumClients - 1

\* the n-th string put by the clients
Payload(n) == [i \in 1..n |-> "x"]

\* the snapshot of a queue on which finished has not been set
NoSnap == [pending |-> <<>>, puts |-> 0, gets |-> 0, putSleepers |-> {}, getSleepers |-> {}]

\* consumer_producer_init, lines 17-25 (the slots are cleared here; the code
\* never reads a slot it has not written)
InitQueue(c) ==
    /\ capacity = <<c>>
    /\ items = <<[i \in 0 .. c - 1 |-> NULL]>>
    /\ head = <<0>>
    /\ tail = <<0>>
    /\ count = <<0>>
    /\ finished = <<FALSE>>
    /\ signaled = <<FALSE>>
    /\ waiting = <<{}>>

InitQ ==
    /\ \E c \in 0 .. MaxCap : InitQueue(c)
    /\ pc = [t \in Clients |-> "ret"]
    /\ at = [t \in Clients |-> "client"]
    /\ tq = [t \in Clients |-> 1]
    /\ new_item = [t \in Clients |-> NULL]
    /\ ret = [t \in Clients |-> NULL]
    /\ name = <<>> /\ next_place_work = <<>> /\ initialized = <<>> /\ handle = <<>>
    /\ input = <<>> /\ pos = 0 /\ idx = 0 /\ stdout = <<>> /\ stderr = <<>>
    /\ putLog = <<<<>>>> /\ getLog = <<<<>>>>
    /\ finSnap = <<NoSnap>>
    /\ nPut = 0 /\ nOps = 0 /\ nStarted = 0 /\ monLog = <<>>
    /\ g_context = <<>> /\ argv = <<>> /\ exit_code = <<>> /\ test = NoTest /\ g_sink = NoSink

\* client t is not inside an operation and makes a call.  The clients run
\* the same code, so they are numbered in the order of their first calls.
ClientCalls(t) ==
    /\ pc[t] = "ret"
    /\ t <= nStarted
    /\ nStarted' = IF t = nStarted THEN nStarted + 1 ELSE nStarted

\* a client calls consumer_producer_put(&q, Payload(nPut + 1))
ClientPut(t) ==
    /\ ClientCalls(t)
    /\ nPut < MaxItems
    /\ put_cs(t, 1, Payload(nPut + 1), TRUE)
    /\ nPut' = nPut + 1
    /\ UNCHANGED <<at, svars, dvars, getLog, finSnap, nOps, monLog, uvars>>

\* a client calls consumer_producer_get(&q)
ClientGet(t) ==
    /\ ClientCalls(t)
    /\ nOps < MaxOps
    /\ get_cs(t, 1, TRUE)
    /\ nOps' = nOps + 1
    /\ UNCHANGED <<at, new_item, svars, dvars, putLog, finSnap, nPut, monLog, uvars>>

\* a client calls consumer_producer_signal_finished(&q)
ClientSignalFinished(t) ==
    /\ ClientCalls(t)
    /\ nOps < MaxOps
    /\ signal_finished_cs(1)
    /\ nOps' = nOps + 1
    /\ UNCHANGED <<tvars, svars, dvars, putLog, getLog, nPut, monLog, uvars>>

\* a client calls consumer_producer_wait_finished(&q)
ClientWaitFinished(t) ==
    /\ ClientCalls(t)
    /\ nOps < MaxOps
    /\ wait_finished_cs(t, 1, TRUE)
    /\ nOps' = nOps + 1
    /\ UNCHANGED <<at, new_item, svars, dvars, putLog, getLog, finSnap, nPut, monLog, uvars>>

\* a step of a thread that is inside a queue operation
QueueStep(t) == PutWake(t) \/ GetWake(t) \/ WaitFinishedWake(t)

NextQ ==
    \E t \in Clients :
        \/ ClientPut(t)
        \/ ClientGet(t)
        \/ ClientSignalFinished(t)
        \/ ClientWaitFinished(t)
        \/ QueueStep(t)
        \/ SpuriousWakeup(t)

SpecQ == InitQ /\ [][NextQ]_vars

\* the clients may make another call in the fair specification
CallsLeft == nPut + nOps < MaxCalls

\* the same with at most MaxCalls calls in all
NextFairQ ==
    \E t \in Clients :
        \/ CallsLeft /\ ClientPut(t)
        \/ CallsLeft /\ ClientGet(t)
        \/ CallsLeft /\ ClientSignalFinished(t)
        \/ CallsLeft /\ ClientWaitFinished(t)
        \/ QueueStep(t)
        \/ SpuriousWakeup(t)

\* scheduling is fair: a thread woken inside a queue operation runs again
FairSpecQ == InitQ /\ [][NextFairQ]_vars /\ \A t \in Clients : WF_vars(QueueStep(t))

\* ------------------------------------------------- monitor specification
\* One monitor_t after monitor_init (monitor.c:5-17): signaled[1] is its
\* flag and waiting[1] the threads asleep on its condition.  The threads of
\* Clients call monitor_wait; monitor_signal and monitor_reset do not block
\* and are called by any thread that is not inside monitor_wait.

\* line 30 left out: the waiters are woken but the signal is not remembered
monitor_signal_pulse(k) ==
    /\ UNCHANGED signaled
    /\ Broadcast(k)

\* monitor_signal, lines 29-33
monitor_signal(k) ==
    /\ signaled' = [signaled EXCEPT ![k] = TRUE]
    /\ Broadcast(k)

\* monitor_reset, lines 39-41
monitor_reset(k) ==
    /\ signaled' = [signaled EXCEPT ![k] = FALSE]
    /\ UNCHANGED waiting

\* line 55 as an auto-reset event: the wait that passes clears the flag
signaled_after_wait_auto_reset(k) == FALSE

\* monitor_wait, lines 54-56: the flag is left as it is
signaled_after_wait(k) == signaled[k]

\* monitor_wait, lines 48-57: thread t runs the critical section, on entry
\* or after a wake-up
monitor_wait_cs(t, k) ==
    IF ~signaled[k] THEN
        /\ CondWait(k, t, "mon_wait")
        /\ UNCHANGED <<signaled, ret>>
    ELSE
        /\ Return(t, k, Success)
        /\ signaled' = [signaled EXCEPT ![k] = signaled_after_wait(k)]
        /\ UNCHANGED waiting

\* what monitor_wait of thread t adds to the log in this step
WaitLogged(t, called) ==
    monLog' = monLog \o (IF called THEN <<<<"wait", t>>>> ELSE <<>>)
                     \o (IF pc'[t] = "ret" THEN <<<<"return", t>>>> ELSE <<>>)

InitM ==
    /\ signaled = <<FALSE>>
    /\ waiting = <<{}>>
    /\ capacity = <<>> /\ items = <<>> /\ head = <<>> /\ tail = <<>>
    /\ count = <<>> /\ finished = <<>>
    /\ pc = [t \in Clients |-> "ret"]
    /\ at = [t \in Clients |-> "client"]
    /\ tq = [t \in Clients |-> 1]
    /\ new_item = [t \in Clients |-> NULL]
    /\ ret = [t \in Clients |-> NULL]
    /\ name = <<>> /\ next_place_work = <<>> /\ initialized = <<>> /\ handle = <<>>
    /\ input = <<>> /\ pos = 0 /\ idx = 0 /\ stdout = <<>> /\ stderr = <<>>
    /\ putLog = <<>> /\ getLog = <<>> /\ finSnap = <<>>
    /\ nPut = 0 /\ nOps = 0 /\ nStarted = 0 /\ monLog = <<>>
    /\ g_context = <<>> /\ argv = <<>> /\ exit_code = <<>> /\ test = NoTest /\ g_sink = NoSink

\* some thread calls monitor_signal(&m)
MonitorSignal ==
    /\ nOps < MaxMonitorOps
    /\ monitor_signal(1)
    /\ nOps' = nOps + 1
    /\ monLog' = Append(monLog, <<"signal">>)
    /\ UNCHANGED <<capacity, items, head, tail, count, finished, tvars, svars, dvars,
                   putLog, getLog, finSnap, nPut, nStarted, uvars>>

\* some thread calls monitor_reset(&m)
MonitorReset ==
    /\ nOps < MaxMonitorOps
    /\ monitor_reset(1)
    /\ nOps' = nOps + 1
    /\ monLog' = Append(monLog, <<"reset">>)
    /\ UNCHANGED <<capacity, items, head, tail, count, finished, tvars, svars, dvars,
                   putLog, getLog, finSnap, nPut, nStarted, uvars>>

\* thread t calls monitor_wait(&m)
MonitorWait(t) ==
    /\ pc[t] = "ret"
    /\ nOps < MaxMonitorOps
    /\ monitor_wait_cs(t, 1)
    /\ nOps' = nOps + 1
    /\ WaitLogged(t, TRUE)
    /\ UNCHANGED <<capacity, items, head, tail, count, finished, at, new_item, svars, dvars,
                   putLog, getLog, finSnap, nPut, nStarted, uvars>>

\* a thread woken in monitor_wait re-evaluates line 49
MonitorWake(t) ==
    /\ Woken(t, "mon_wait")
    /\ monitor_wait_cs(t, tq[t])
    /\ WaitLogged(t, FALSE)
    /\ UNCHANGED <<capacity, items, head, tail, count, finished, at, new_item, svars, dvars,
                   putLog, getLog, finSnap, nPut, nOps, nStarted, uvars>>

NextM ==
    \/ MonitorSignal
    \/ MonitorReset
    \/ \E t \in Clients :
        \/ MonitorWait(t)
        \/ MonitorWake(t)
        \/ SpuriousWakeup(t)

SpecM == InitM /\ [][NextM]_vars

\* scheduling is fair: a thread woken inside monitor_wait runs again
FairSpecM == SpecM /\ \A t \in Clients : WF_vars(MonitorWake(t))

\* ------------------------------------------------------ transformations
Lower == <<"a", "b", "d", "e", "n">>
Upper == <<"A", "B", "D", "E", "N">>

\* toupper / tolower / islower / isupper of <ctype.h> on the characters used
islower(c) == \E i \in 1 .. Len(Lower) : Lower[i] = c
isupper(c) == \E i \in 1 .. Len(Upper) : Upper[i] = c
toupper(c) == IF islower(c) THEN Upper[CHOOSE i \in 1 .. Len(Lower) : Lower[i] = c] ELSE c
tolower(c) == IF isupper(c) THEN Lower[CHOOSE i \in 1 .. Len(Upper) : Upper[i] = c] ELSE c

\* logger: plugin_transform duplicates its input
logger_transform(in) == in

\* uppercaser: plugin_transform
uppercaser_transform(in) ==
    IF in = END THEN NULL ELSE [i \in 1 .. Len(in) |-> toupper(in[i])]

\* flipper: plugin_transform flips the case of every character
flipper_transform(in) ==
    [i \in 1 .. Len(in) |->
        IF islower(in[i]) THEN toupper(in[i])
        ELSE IF isupper(in[i]) THEN tolower(in[i])
        ELSE in[i]]

\* rotator: plugin_transform moves every character one place to the right
rotator_transform(in) ==
    IF in = END THEN NULL
    ELSE [i \in 1 .. Len(in) |-> IF i = 1 THEN in[Len(in)] ELSE in[i - 1]]

DROP == <<"D", "R", "O", "P">>           \* the literal "DROP"

\* proc_fn of test_plugin_common.c, lines 72-93, under set_proc_cfg(mode, drop_if)
proc_fn(mode, drop_if, in) ==
    IF mode = "D" /\ in = drop_if THEN NULL
    ELSE IF mode = "U" THEN [i \in 1 .. Len(in) |-> toupper(in[i])]
    ELSE in

\* context->process_function of the stage called nm; the unit tests' stages
\* p3 and p7 run proc_fn under set_proc_cfg('D', "DROP") and set_proc_cfg('U', NULL)
process_function(nm, in) ==
    CASE nm = "logger" -> logger_transform(in)
      [] nm = "uppercaser" -> uppercaser_transform(in)
      [] nm = "flipper" -> flipper_transform(in)
      [] nm = "rotator" -> rotator_transform(in)
      [] nm = "p3" -> proc_fn("D", DROP, in)
      [] nm = "p7" -> proc_fn("U", NULL, in)

\* line 26 never recognising the end marker
is_end_marker_never(s) == FALSE

\* plugin_consumer_thread, line 26: strcmp(item, "<END>") == 0
is_end_marker(s) == s = END

\* ------------------------------------------------ pipeline specification
\* The driver after init_plugins has returned 0 (part_000:295): every stage
\* is initialized, its worker thread runs, and stage i is attached to
\* stage i + 1.
StageNames == {"logger", "uppercaser"}
Lines == {<<"a", "b">>, <<"<", "e", "n", "d", ">">>, END}

SeqsUpTo(S, n) == UNION {[1 .. m -> S] : m \in 0 .. n}

Stages == DOMAIN name
NumStages == Len(name)

\* ---- the command line, main (part_000:267-279)

MaxArgLen == 3       \* longest queue-size argument

\* the characters a queue-size argument is made of
ArgChars == {"-", "0", "1", "2", "x"}
Digits == <<"0", "1", "2">>

isdigit(c) == \E i \in 1 .. Len(Digits) : Digits[i] = c
digit_value(c) == (CHOOSE i \in 1 .. Len(Digits) : Digits[i] = c) - 1

RECURSIVE digits_from(_, _, _)
\* the value of the run of digits of s that starts at position i, v being
\* the value of the digits read so far
digits_from(s, i, v) ==
    IF i > Len(s) \/ ~isdigit(s[i]) THEN v
    ELSE digits_from(s, i + 1, 10 * v + digit_value(s[i]))

\* atoi of <stdlib.h>: an optional sign, then the digits up to the first
\* character that is no digit; 0 when there is no digit there
atoi(s) ==
    IF Len(s) > 0 /\ s[1] = "-" THEN 0 - digits_from(s, 2, 0)
    ELSE digits_from(s, 1, 0)

\* ---- the loader, load_plugin (part_000:74-156) and init_plugins (163-178)

\* lines 79-86: how many stages before stage i have the same name
duplicate_index(names, i) == Cardinality({j \in 1 .. i - 1 : names[j] = names[i]})

\* lines 88-104 without the temporary copy: every instance is loaded from output/<name>.so
load_path_no_copy(names, i) == <<"output", 0, names[i]>>

\* lines 88-104: the first instance of a name is loaded from output/<name>.so,
\* instance number d > 0 from its own copy /tmp/analyzer_<pid>_<d>_<name>.so
load_path(names, i) ==
    IF duplicate_index(names, i) = 0 THEN <<"output", 0, names[i]>>
    ELSE <<"tmp", duplicate_index(names, i), names[i]>>

\* line 106: dlopen maps a file once; a path that is already loaded yields
\* the handle of the image loaded first.  An image is named by the index
\* of the stage it was first loaded for; it has its own static g_context
\* (plugin_common.c:9), which holds the queue and the worker of that index.
dlopen(names, i) ==
    CHOOSE j \in 1 .. i :
        /\ load_path(names, j) = load_path(names, i)
        /\ \A l \in 1 .. j - 1 : load_path(names, l) # load_path(names, i)

\* init_plugins, lines 173-175, and plugin_attach: g_context->next_place_work
\* of image c after the loop, the last attach on c being the one that stays
attached(h, c) ==
    LET on == {i \in 1 .. Len(h) - 1 : h[i] = c}
    IN IF on = {} THEN NoNext
       ELSE h[(CHOOSE i \in on : \A j \in on : j <= i) + 1]

InitPipeline ==
    /\ \E names \in SeqsUpTo(StageNames, MaxStages) \ {<<>>} : name = names
    /\ \E a \in [1 .. 1 -> ArgChars] :
         /\ atoi(a) \in 1 .. MaxQueueSize
         /\ argv = <<a>> \o name
         /\ capacity = [i \in Stages |-> atoi(a)]
    /\ input = <<>>
    /\ items = [i \in Stages |-> [j \in 0 .. capacity[i] - 1 |-> NULL]]
    /\ head = [i \in Stages |-> 0]
    /\ tail = [i \in Stages |-> 0]
    /\ count = [i \in Stages |-> 0]
    /\ finished = [i \in Stages |-> FALSE]
    /\ signaled = [i \in Stages |-> FALSE]
    /\ waiting = [i \in Stages |-> {}]
    /\ handle = [i \in Stages |-> dlopen(name, i)]
    /\ next_place_work = [c \in Stages |-> attached(handle, c)]
    /\ initialized = [i \in Stages |-> TRUE]
    /\ pc = [t \in 0 .. NumStages |-> "ret"]
    /\ at = [t \in 0 .. NumStages |-> IF t = Driver THEN "read" ELSE "loop"]
    /\ tq = [t \in 0 .. NumStages |-> 1]
    /\ new_item = [t \in 0 .. NumStages |-> NULL]
    /\ ret = [t \in 0 .. NumStages |-> NULL]
    /\ pos = 0 /\ idx = 1 /\ stdout = <<>> /\ stderr = <<>>
    /\ putLog = [i \in Stages |-> <<>>]
    /\ getLog = [i \in Stages |-> <<>>]
    /\ finSnap = [i \in Stages |-> NoSnap]
    /\ nPut = 0 /\ nOps = 0 /\ nStarted = 0 /\ monLog = <<>>
    /\ g_context = [c \in Stages |-> c]
    /\ exit_code = <<>> /\ test = NoTest /\ g_sink = NoSink

\* thread t is in its own code (not inside a queue operation) at location loc
At(t, loc) == t \in DOMAIN pc /\ pc[t] = "ret" /\ at[t] = loc

Goto(t, loc) == at' = [at EXCEPT ![t] = loc]

\* lines 188, 216 and 257, !g_context || !g_context->initialized, in image k
not_initialized(k) == g_context[k] = NoContext \/ ~initialized[g_context[k]]

\* plugin_place_work of image k called by thread t with string str
\* (plugin_common.c:215-237): duplicates str and puts it into the queue
plugin_place_work(t, k, str) ==
    IF not_initialized(k) THEN
        /\ ret' = [ret EXCEPT ![t] = NotInitialized]
        /\ UNCHANGED <<qvars, pc, tq, new_item, putLog>>
    ELSE put_cs(t, g_context[k], str, TRUE)

\* sink_next of test_plugin_common.c, lines 112-118, called by thread t: the
\* sink notes the end marker, records any other string while it has room,
\* and returns an error for the string recorded at index fail_on_index
sink_next(t, s) ==
    LET lines == IF Len(g_sink.lines) < SinkCap THEN Append(g_sink.lines, s) ELSE g_sink.lines
    IN
    /\ IF s = END THEN
            /\ g_sink' = [g_sink EXCEPT !.saw_end = TRUE]
            /\ ret' = [ret EXCEPT ![t] = NULL]
       ELSE
            /\ g_sink' = [g_sink EXCEPT !.lines = lines]
            /\ ret' = [ret EXCEPT ![t] =
                          IF g_sink.fail_on_index >= 0 /\ Len(lines) - 1 = g_sink.fail_on_index
                          THEN DownstreamError ELSE NULL]
    /\ UNCHANGED <<qvars, pc, tq, new_item, putLog>>

\* context->next_place_work(s) called by the worker t (plugin_common.c:29, 46):
\* the handle attached is the test's sink or the plugin_place_work of image next
forward(t, next, s) ==
    IF next = Sink THEN sink_next(t, s)
    ELSE /\ plugin_place_work(t, next, s)
         /\ UNCHANGED g_sink

\* ---- the stage worker, plugin_consumer_thread (plugin_common.c:17-71)

\* lines 45-54 with the loop left when the transformation returns NULL
after_drop_stops(i) == "final"

\* lines 45-54 when result is NULL: neither branch is taken, the input is
\* freed and the worker goes on with the loop
after_drop(i) == "loop"

\* line 46 with the loop left when the forward handle returns an error
after_forward_stops(i) == IF ret'[i] # NULL THEN "final" ELSE "loop"

\* lines 46-54: the value returned by next_place_work is not looked at; the
\* worker frees the input and goes on with the loop
after_forward(i) == "loop"

\* line 24: the worker calls consumer_producer_get on its own queue
WorkerGet(i) ==
    /\ At(i, "loop")
    /\ get_cs(i, i, TRUE)
    /\ Goto(i, "got")
    /\ UNCHANGED <<new_item, svars, dvars, putLog, finSnap, nPut, nOps, nStarted, monLog, uvars>>

\* lines 24-63: the worker handles the value returned by get
WorkerHandle(i) ==
    /\ At(i, "got")
    /\ LET it == ret[i]
           next == next_place_work[i]
           result == process_function(name[i], it)
       IN
       IF it = NULL THEN
            \* the loop ends
            /\ Goto(i, "final")
            /\ UNCHANGED <<qvars, pc, tq, new_item, ret, stdout, putLog, g_sink>>
       ELSE IF is_end_marker(it) THEN
            \* lines 28-32
            IF next # NoNext THEN
                /\ forward(i, next, it)
                /\ Goto(i, "end_marker")
                /\ UNCHANGED stdout
            ELSE
                /\ stdout' = Append(stdout, <<name[i], it>>)
                /\ Goto(i, "end_marker")
                /\ UNCHANGED <<qvars, pc, tq, new_item, ret, putLog, g_sink>>
       ELSE IF next # NoNext /\ result # NULL THEN
            \* lines 45-46
            /\ forward(i, next, result)
            /\ Goto(i, after_forward(i))
            /\ UNCHANGED stdout
       ELSE IF result # NULL THEN
            \* lines 47-50
            /\ stdout' = Append(stdout, <<name[i], result>>)
            /\ Goto(i, "loop")
            /\ UNCHANGED <<qvars, pc, tq, new_item, ret, putLog, g_sink>>
       ELSE
            \* result == NULL: nothing is forwarded or printed
            /\ Goto(i, after_drop(i))
            /\ UNCHANGED <<qvars, pc, tq, new_item, ret, stdout, putLog, g_sink>>
    /\ UNCHANGED <<svars, input, pos, idx, stderr, getLog, finSnap, nPut, nOps, nStarted, monLog,
                   g_context, argv, exit_code, test>>

\* lines 33-37 without the break of line 37: the worker goes on with the loop
WorkerEndMarker_no_break(i) ==
    /\ At(i, "end_marker")
    /\ signal_finished_cs(i)
    /\ Goto(i, "loop")
    /\ UNCHANGED <<pc, tq, new_item, ret, svars, dvars, putLog, getLog, nPut, nOps, nStarted, monLog, uvars>>

\* lines 33-37: after the end marker, signal finished on the own queue and leave the loop
WorkerEndMarker(i) ==
    /\ At(i, "end_marker")
    /\ signal_finished_cs(i)
    /\ Goto(i, "final")
    /\ UNCHANGED <<pc, tq, new_item, ret, svars, dvars, putLog, getLog, nPut, nOps, nStarted, monLog, uvars>>

\* lines 66-70: signal finished on the own queue and return from the thread
WorkerFinal(i) ==
    /\ At(i, "final")
    /\ signal_finished_cs(i)
    /\ pc' = [pc EXCEPT ![i] = "exit"]
    /\ UNCHANGED <<at, tq, new_item, ret, svars, dvars, putLog, getLog, nPut, nOps, nStarted, monLog, uvars>>

WorkerStep(i) ==
    \/ WorkerGet(i)
    \/ WorkerHandle(i)
    \/ WorkerEndMarker(i)
    \/ WorkerFinal(i)
    \/ PutWake(i)
    \/ GetWake(i)

\* ---- the driver, main (part_000:295-321)

\* process_input, lines 226-228, and the break of line 308, once
\* plugin_place_work has returned
DriverPlaced ==
    IF pc'[Driver] = "ret" THEN
        /\ stderr' = IF ret'[Driver] # NULL
                     THEN Append(stderr, <<"Error placing work: ", ret'[Driver]>>)
                     ELSE stderr
        /\ Goto(Driver, IF input'[pos'] = END THEN "wait" ELSE "read")
    ELSE UNCHANGED <<stderr, at>>

\* lines 297-311: fgets returns the next line of standard input, whatever
\* it is, and process_input places it into stage 0
DriverRead ==
    /\ At(Driver, "read")
    /\ pos < MaxLines
    /\ \E line \in Lines :
        /\ input' = Append(input, line)
        /\ plugin_place_work(Driver, handle[1], line)
    /\ pos' = pos + 1
    /\ DriverPlaced
    /\ UNCHANGED <<svars, idx, stdout, getLog, finSnap, nPut, nOps, nStarted, monLog, uvars>>

\* the driver, woken in consumer_producer_put, re-evaluates line 100
DriverPutWake ==
    /\ Woken(Driver, "put_wait")
    /\ put_cs(Driver, tq[Driver], new_item[Driver], FALSE)
    /\ UNCHANGED <<input, pos>>
    /\ DriverPlaced
    /\ UNCHANGED <<svars, idx, stdout, getLog, finSnap, nPut, nOps, nStarted, monLog, uvars>>

\* line 297: fgets returns NULL at the end of input
DriverEof ==
    /\ At(Driver, "read")
    /\ Goto(Driver, "wait")
    /\ UNCHANGED <<qvars, pc, tq, new_item, ret, svars, input, pos, idx, stdout, stderr, hvars, uvars>>

\* wait_for_completion, lines 234-243: plugin_wait_finished of stage idx
DriverWait ==
    /\ At(Driver, "wait")
    /\ IF idx <= NumStages THEN
            /\ wait_finished_cs(Driver, handle[idx], TRUE)
            /\ idx' = idx + 1
            /\ UNCHANGED at
       ELSE
            /\ Goto(Driver, "fini")
            /\ idx' = 1
            /\ UNCHANGED <<qvars, pc, tq, ret>>
    /\ UNCHANGED <<new_item, svars, input, pos, stdout, stderr, hvars, uvars>>

\* fini_plugins, lines 185-191, and plugin_fini, lines 188-193: signal finished on the queue of stage idx
DriverFini ==
    /\ At(Driver, "fini")
    /\ IF idx <= NumStages THEN
            /\ signal_finished_cs(handle[idx])
            /\ Goto(Driver, "join")
       ELSE
            /\ Goto(Driver, "print")
            /\ UNCHANGED <<qvars, finSnap>>
    /\ UNCHANGED <<pc, tq, new_item, ret, svars, dvars, putLog, getLog, nPut, nOps, nStarted, monLog, uvars>>

\* plugin_fini, lines 196-206: pthread_join returns once the worker has
\* returned; then consumer_producer_destroy and g_context = NULL
DriverJoin ==
    /\ At(Driver, "join")
    /\ pc[handle[idx]] = "exit"
    /\ signal_finished_cs(handle[idx])
    /\ initialized' = [initialized EXCEPT ![handle[idx]] = FALSE]
    /\ g_context' = [g_context EXCEPT ![handle[idx]] = NoContext]
    /\ idx' = idx + 1
    /\ Goto(Driver, "fini")
    /\ UNCHANGED <<pc, tq, new_item, ret, name, next_place_work, handle, input, pos, stdout,
                   stderr, putLog, getLog, nPut, nOps, nStarted, monLog, argv, exit_code,
                   test, g_sink>>

\* line 320: printf("Pipeline shutdown complete.\n"), then return 0
DriverPrint ==
    /\ At(Driver, "print")
    /\ stdout' = Append(stdout, Shutdown)
    /\ pc' = [pc EXCEPT ![Driver] = "exit"]
    /\ exit_code' = <<0>>
    /\ UNCHANGED <<qvars, at, tq, new_item, ret, svars, input, pos, idx, stderr, hvars,
                   g_context, argv, test, g_sink>>

DriverStep ==
    \/ DriverRead
    \/ DriverPutWake
    \/ DriverEof
    \/ DriverWait
    \/ DriverFini
    \/ DriverJoin
    \/ DriverPrint
    \/ WaitFinishedWake(Driver)

Next ==
    \/ DriverStep
    \/ \E i \in 1 .. MaxStages : WorkerStep(i)
    \/ \E t \in 0 .. MaxStages : SpuriousWakeup(t)

Spec == InitPipeline /\ [][Next]_vars

\* scheduling is fair: the driver and every worker run whenever they can
FairSpec ==
    /\ Spec
    /\ WF_vars(DriverStep)
    /\ \A i \in 1 .. MaxStages : WF_vars(WorkerStep(i))

\* ------------------------------------------- command-line specification
\* main from its entry to the end of init_plugins (part_000:267-293), on a
\* command line whose stage names all name existing plugins.
ArgStrings == SeqsUpTo(ArgChars, MaxArgLen)

InitArgs ==
    /\ \/ argv = <<>>
       \/ \E a \in ArgStrings, names \in SeqsUpTo(StageNames, MaxStages) : argv = <<a>> \o names
    /\ capacity = <<>> /\ items = <<>> /\ head = <<>> /\ tail = <<>>
    /\ count = <<>> /\ finished = <<>> /\ signaled = <<>> /\ waiting = <<>>
    /\ pc = [t \in {Driver} |-> "ret"]
    /\ at = [t \in {Driver} |-> "main"]
    /\ tq = [t \in {Driver} |-> 1]
    /\ new_item = [t \in {Driver} |-> NULL]
    /\ ret = [t \in {Driver} |-> NULL]
    /\ name = <<>> /\ next_place_work = <<>> /\ initialized = <<>> /\ handle = <<>>
    /\ input = <<>> /\ pos = 0 /\ idx = 1 /\ stdout = <<>> /\ stderr = <<>>
    /\ putLog = <<>> /\ getLog = <<>> /\ finSnap = <<>>
    /\ nPut = 0 /\ nOps = 0 /\ nStarted = 0 /\ monLog = <<>>
    /\ g_context = <<>> /\ exit_code = <<>> /\ test = NoTest /\ g_sink = NoSink

\* main returns code
Exit(code) ==
    /\ exit_code' = <<code>>
    /\ pc' = [pc EXCEPT ![Driver] = "exit"]

\* lines 268-279: the checks of argc and of the queue size; argc counts the program name
MainArgs ==
    /\ At(Driver, "main")
    /\ IF Len(argv) + 1 < 3 THEN
            /\ stdout' = Append(stdout, Usage)
            /\ Exit(1)
            /\ UNCHANGED <<stderr, at>>
       ELSE IF atoi(argv[1]) <= 0 THEN
            /\ stderr' = Append(stderr, QueueSizeError)
            /\ stdout' = Append(stdout, Usage)
            /\ Exit(1)
            /\ UNCHANGED at
       ELSE
            /\ Goto(Driver, "load")
            /\ UNCHANGED <<stdout, stderr, exit_code, pc>>
    /\ UNCHANGED <<qvars, tq, new_item, ret, svars, input, pos, idx, hvars, g_context, argv,
                   test, g_sink>>

\* lines 282-293: load_plugin for every stage name, then init_plugins, which
\* initializes every stage with the queue size, starting its worker, and
\* attaches each stage to the next
MainLoad ==
    /\ At(Driver, "load")
    /\ LET names == Tail(argv)
           n == Len(names)
           queue_size == atoi(argv[1])
           h == [i \in 1 .. n |-> dlopen(names, i)]
       IN
       /\ name' = names
       /\ handle' = h
       /\ next_place_work' = [c \in 1 .. n |-> attached(h, c)]
       /\ initialized' = [i \in 1 .. n |-> TRUE]
       /\ g_context' = [c \in 1 .. n |-> c]
       /\ capacity' = [i \in 1 .. n |-> queue_size]
       /\ items' = [i \in 1 .. n |-> [j \in 0 .. queue_size - 1 |-> NULL]]
       /\ head' = [i \in 1 .. n |-> 0]
       /\ tail' = [i \in 1 .. n |-> 0]
       /\ count' = [i \in 1 .. n |-> 0]
       /\ finished' = [i \in 1 .. n |-> FALSE]
       /\ signaled' = [i \in 1 .. n |-> FALSE]
       /\ waiting' = [i \in 1 .. n |-> {}]
       /\ pc' = [t \in 0 .. n |-> "ret"]
       /\ at' = [t \in 0 .. n |-> IF t = Driver THEN "read" ELSE "loop"]
       /\ tq' = [t \in 0 .. n |-> 1]
       /\ new_item' = [t \in 0 .. n |-> NULL]
       /\ ret' = [t \in 0 .. n |-> NULL]
       /\ putLog' = [i \in 1 .. n |-> <<>>]
       /\ getLog' = [i \in 1 .. n |-> <<>>]
       /\ finSnap' = [i \in 1 .. n |-> NoSnap]
    /\ UNCHANGED <<dvars, nPut, nOps, nStarted, monLog, argv, exit_code, test, g_sink>>

NextA ==
    \/ MainArgs
    \/ MainLoad

SpecA == InitArgs /\ [][NextA]_vars

\* ------------------------------------------------ start-up specification
\* main from the loop that loads the stages to its return (part_000:281-321):
\* load_plugin for every name, init_plugins, and then either the run of the
\* pipeline or, when a load or an initialization has failed, fini_plugins
\* and return 1.
MaxLoaded == 3       \* most stage names on the command line

\* the stage names given: one plugin that exists and one that does not
LoadNames == {"logger", "nosuch"}

\* the plugins present in output/
exists(nm) == nm \in StageNames

InitStartup ==
    /\ \E a \in [1 .. 1 -> ArgChars], names \in SeqsUpTo(LoadNames, MaxLoaded) \ {<<>>} :
         /\ atoi(a) \in 1 .. MaxQueueSize
         /\ argv = <<a>> \o names
    /\ capacity = <<>> /\ items = <<>> /\ head = <<>> /\ tail = <<>>
    /\ count = <<>> /\ finished = <<>> /\ signaled = <<>> /\ waiting = <<>>
    /\ pc = [t \in {Driver} |-> "ret"]
    /\ at = [t \in {Driver} |-> "load"]
    /\ tq = [t \in {Driver} |-> 1]
    /\ new_item = [t \in {Driver} |-> NULL]
    /\ ret = [t \in {Driver} |-> NULL]
    /\ name = <<>> /\ next_place_work = <<>> /\ initialized = <<>> /\ handle = <<>>
    /\ input = <<>> /\ pos = 0 /\ idx = 1 /\ stdout = <<>> /\ stderr = <<>>
    /\ putLog = <<>> /\ getLog = <<>> /\ finSnap = <<>>
    /\ nPut = 0 /\ nOps = 0 /\ nStarted = 0 /\ monLog = <<>>
    /\ g_context = <<>> /\ exit_code = <<>> /\ test = NoTest /\ g_sink = NoSink

\* main, lines 281-286, and load_plugin, lines 74-156: the next name is
\* loaded and gets its plugin_t; when dlopen fails, load_plugin writes the
\* error and main goes to fini_plugins
StartupLoad ==
    /\ At(Driver, "load")
    /\ IF idx > Len(argv) - 1 THEN
            /\ Goto(Driver, "init")
            /\ idx' = 1
            /\ UNCHANGED <<name, handle, g_context, stderr>>
       ELSE IF ~exists(argv[idx + 1]) THEN
            /\ stderr' = Append(stderr, <<"main", "dlopen failed", argv[idx + 1]>>)
            /\ Goto(Driver, "teardown")
            /\ idx' = 1
            /\ UNCHANGED <<name, handle, g_context>>
       ELSE
            /\ name' = Append(name, argv[idx + 1])
            /\ handle' = Append(handle, dlopen(name', idx))
            /\ g_context' = Append(g_context, NoContext)
            /\ idx' = idx + 1
            /\ UNCHANGED <<at, stderr>>
    /\ UNCHANGED <<qvars, pc, tq, new_item, ret, next_place_work, initialized, input, pos,
                   stdout, hvars, argv, exit_code, test, g_sink>>

\* plugin_init of the image of stage i, common_plugin_init lines 114-166,
\* with pthread_create succeeding: the image gets a context, with its queue
\* and its running worker thread
plugin_init(i, queue_size) ==
    LET c == Len(capacity) + 1 IN
    /\ capacity' = Append(capacity, queue_size)
    /\ items' = Append(items, [j \in 0 .. queue_size - 1 |-> NULL])
    /\ head' = Append(head, 0)
    /\ tail' = Append(tail, 0)
    /\ count' = Append(count, 0)
    /\ finished' = Append(finished, FALSE)
    /\ signaled' = Append(signaled, FALSE)
    /\ waiting' = Append(waiting, {})
    /\ next_place_work' = Append(next_place_work, NoNext)
    /\ initialized' = Append(initialized, TRUE)
    /\ putLog' = Append(putLog, <<>>)
    /\ getLog' = Append(getLog, <<>>)
    /\ finSnap' = Append(finSnap, NoSnap)
    /\ pc' = pc @@ (c :> "ret")
    /\ at' = at @@ (c :> "loop")
    /\ tq' = tq @@ (c :> c)
    /\ new_item' = new_item @@ (c :> NULL)
    /\ ret' = ret @@ (c :> NULL)
    /\ g_context' = [g_context EXCEPT ![handle[i]] = c]

\* init_plugins, lines 164-170: plugin_init of stage idx; pthread_create
\* succeeds or fails, and on a failure init_plugins writes the error and
\* main goes to fini_plugins
StartupInit ==
    /\ At(Driver, "init")
    /\ idx <= NumStages
    /\ \E created \in BOOLEAN :
         IF created THEN
            /\ plugin_init(idx, atoi(argv[1]))
            /\ idx' = idx + 1
            /\ UNCHANGED stderr
         ELSE
            /\ stderr' = Append(stderr, <<"main", "Error initializing plugin", name[idx],
                                          <<"Failed to create consumer thread">>>>)
            /\ at' = [at EXCEPT ![Driver] = "teardown"]
            /\ idx' = 1
            /\ UNCHANGED <<qvars, pc, tq, new_item, ret, next_place_work, initialized,
                           putLog, getLog, finSnap, g_context>>
    /\ UNCHANGED <<name, handle, input, pos, stdout, nPut, nOps, nStarted, monLog, argv,
                   exit_code, test, g_sink>>

\* init_plugins without the loop of lines 173-175: no stage is attached
StartupAttach_unattached ==
    /\ At(Driver, "init")
    /\ idx > NumStages
    /\ next_place_work' = next_place_work
    /\ Goto(Driver, "read")
    /\ idx' = 1
    /\ UNCHANGED <<qvars, pc, tq, new_item, ret, name, initialized, handle, input, pos, stdout,
                   stderr, hvars, uvars>>

\* init_plugins, lines 173-177: every stage but the last is attached to the
\* place_work of the next, and main goes on to read standard input
StartupAttach ==
    /\ At(Driver, "init")
    /\ idx > NumStages
    /\ next_place_work' = [c \in DOMAIN next_place_work |-> attached(handle, c)]
    /\ Goto(Driver, "read")
    /\ idx' = 1
    /\ UNCHANGED <<qvars, pc, tq, new_item, ret, name, initialized, handle, input, pos, stdout,
                   stderr, hvars, uvars>>

\* fini_plugins called at line 283 or 290, lines 185-191 for stage idx:
\* plugin_fini returns an error for an image without a context, and
\* otherwise signals finished on the queue and joins the worker; after the
\* last stage main returns 1
TeardownFini ==
    /\ At(Driver, "teardown")
    /\ IF idx > NumStages THEN
            /\ Exit(1)
            /\ UNCHANGED <<qvars, finSnap, at, idx, stderr>>
       ELSE IF not_initialized(handle[idx]) THEN
            /\ stderr' = Append(stderr, <<"main", "Error finalizing plugin", name[idx],
                                          NotInitialized>>)
            /\ idx' = idx + 1
            /\ UNCHANGED <<qvars, finSnap, at, pc, exit_code>>
       ELSE
            /\ signal_finished_cs(g_context[handle[idx]])
            /\ Goto(Driver, "teardown_join")
            /\ UNCHANGED <<idx, stderr, pc, exit_code>>
    /\ UNCHANGED <<tq, new_item, ret, svars, input, pos, stdout, putLog, getLog, nPut, nOps,
                   nStarted, monLog, g_context, argv, test, g_sink>>

\* plugin_fini in fini_plugins on the failure path, without the pthread_join of line 196
TeardownJoin_no_join ==
    /\ At(Driver, "teardown_join")
    /\ signal_finished_cs(g_context[handle[idx]])
    /\ initialized' = [initialized EXCEPT ![g_context[handle[idx]]] = FALSE]
    /\ g_context' = [g_context EXCEPT ![handle[idx]] = NoContext]
    /\ idx' = idx + 1
    /\ Goto(Driver, "teardown")
    /\ UNCHANGED <<pc, tq, new_item, ret, name, next_place_work, handle, input, pos, stdout,
                   stderr, putLog, getLog, nPut, nOps, nStarted, monLog, argv, exit_code,
                   test, g_sink>>

\* plugin_fini, lines 196-206, in fini_plugins on the failure path
TeardownJoin ==
    /\ At(Driver, "teardown_join")
    /\ pc[g_context[handle[idx]]] = "exit"
    /\ signal_finished_cs(g_context[handle[idx]])
    /\ initialized' = [initialized EXCEPT ![g_context[handle[idx]]] = FALSE]
    /\ g_context' = [g_context EXCEPT ![handle[idx]] = NoContext]
    /\ idx' = idx + 1
    /\ Goto(Driver, "teardown")
    /\ UNCHANGED <<pc, tq, new_item, ret, name, next_place_work, handle, input, pos, stdout,
                   stderr, putLog, getLog, nPut, nOps, nStarted, monLog, argv, exit_code,
                   test, g_sink>>

StartupStep ==
    \/ StartupLoad
    \/ StartupInit
    \/ StartupAttach
    \/ TeardownFini
    \/ TeardownJoin

NextL ==
    \/ StartupStep
    \/ DriverStep
    \/ \E i \in 1 .. MaxLoaded : WorkerStep(i)
    \/ \E t \in 0 .. MaxLoaded : SpuriousWakeup(t)

SpecL == InitStartup /\ [][NextL]_vars

\* scheduling is fair: the driver and every worker run whenever they can
FairSpecL ==
    /\ SpecL
    /\ WF_vars(StartupStep)
    /\ WF_vars(DriverStep)
    /\ \A i \in 1 .. MaxLoaded : WF_vars(WorkerStep(i))

\* ----------------------------------------- transformation specification
\* A string handed through one or two flipper stages and printed: each
\* stage's worker calls plugin_transform on what the stage before it
\* produced (plugin_common.c:42), and the last prints the result (line 49).
MaxLineLen == 3      \* longest string transformed

\* letters of both cases and a character that is no letter
TransformChars == {"a", "b", "B", "<"}

InitTransform ==
    /\ \E s \in SeqsUpTo(TransformChars, MaxLineLen), n \in 1 .. 2 :
         /\ input = <<s>>
         /\ name = [i \in 1 .. n |-> "flipper"]
         /\ ret = [t \in {Driver} |-> s]
    /\ capacity = <<>> /\ items = <<>> /\ head = <<>> /\ tail = <<>>
    /\ count = <<>> /\ finished = <<>> /\ signaled = <<>> /\ waiting = <<>>
    /\ pc = [t \in {Driver} |-> "ret"]
    /\ at = [t \in {Driver} |-> "transform"]
    /\ tq = [t \in {Driver} |-> 1]
    /\ new_item = [t \in {Driver} |-> NULL]
    /\ next_place_work = <<>> /\ initialized = <<>> /\ handle = <<>>
    /\ pos = 1 /\ idx = 1 /\ stdout = <<>> /\ stderr = <<>>
    /\ putLog = <<>> /\ getLog = <<>> /\ finSnap = <<>>
    /\ nPut = 0 /\ nOps = 0 /\ nStarted = 0 /\ monLog = <<>>
    /\ g_context = <<>> /\ argv = <<>> /\ exit_code = <<>> /\ test = NoTest /\ g_sink = NoSink

\* plugin_common.c:42: stage idx transforms the string
Transform ==
    /\ At(Driver, "transform")
    /\ idx <= NumStages
    /\ ret' = [ret EXCEPT ![Driver] = process_function(name[idx], ret[Driver])]
    /\ idx' = idx + 1
    /\ UNCHANGED <<qvars, pc, at, tq, new_item, svars, input, pos, stdout, stderr, hvars, uvars>>

\* plugin_common.c:49: the last stage prints the string
TransformPrint ==
    /\ At(Driver, "transform")
    /\ idx > NumStages
    /\ stdout' = Append(stdout, <<name[NumStages], ret[Driver]>>)
    /\ Goto(Driver, "done")
    /\ UNCHANGED <<qvars, pc, tq, new_item, ret, svars, input, pos, idx, stderr, hvars, uvars>>

NextT ==
    \/ Transform
    \/ TransformPrint

SpecT == InitTransform /\ [][NextT]_vars

\* ------------------------------------------------ stage unit specification
\* One library image (plugin_common.c linked into test_plugin_common.c) and
\* a test thread that calls the stage's interface in any order; the forward
\* handle it attaches is the recording sink.
MaxPlaced == 4       \* most plugin_place_work calls made by the test thread
MaxInits == 2        \* most contexts common_plugin_init creates

Image == 1           \* the one image of the unit tests
UnitNames == {"p3", "p7"}
UnitLines == {<<"a", "b">>, DROP, END}

InitUnit ==
    /\ capacity = <<>> /\ items = <<>> /\ head = <<>> /\ tail = <<>>
    /\ count = <<>> /\ finished = <<>> /\ signaled = <<>> /\ waiting = <<>>
    /\ pc = [t \in {Driver} |-> "ret"]
    /\ at = [t \in {Driver} |-> "test"]
    /\ tq = [t \in {Driver} |-> 1]
    /\ new_item = [t \in {Driver} |-> NULL]
    /\ ret = [t \in {Driver} |-> NULL]
    /\ name = <<>> /\ next_place_work = <<>> /\ initialized = <<>> /\ handle = <<>>
    /\ input = <<>> /\ pos = 0 /\ idx = 0 /\ stdout = <<>> /\ stderr = <<>>
    /\ putLog = <<>> /\ getLog = <<>> /\ finSnap = <<>>
    /\ nPut = 0 /\ nOps = 0 /\ nStarted = 0 /\ monLog = <<>>
    /\ g_context = <<NoContext>>
    /\ argv = <<>> /\ exit_code = <<>>
    \* a test makes one context and places up to MaxPlaced strings, or it
    \* makes and destroys up to MaxInits contexts and places nothing
    /\ test \in {[inits |-> 1, placed |-> MaxPlaced], [inits |-> MaxInits, placed |-> 0]}
    \* sink_reset(8, fail_on_index), lines 105-109
    /\ \E f \in {-1, 0} : g_sink = [lines |-> <<>>, saw_end |-> FALSE, fail_on_index |-> f]

\* the test thread is between two calls and makes a call
UnitCalls ==
    /\ At(Driver, "test")
    /\ UNCHANGED test

\* common_plugin_init(process_function, nm, queue_size), lines 114-166, with
\* the allocations and pthread_create succeeding: a new context, with its
\* queue and its worker thread, is stored in g_context
common_plugin_init(nm, queue_size) ==
    LET c == Len(name) + 1 IN
    IF queue_size <= 0 THEN
        /\ ret' = [ret EXCEPT ![Driver] = <<"Queue size must be positive">>]
        /\ UNCHANGED <<qvars, pc, at, tq, new_item, svars, putLog, getLog, finSnap, g_context>>
    ELSE
        /\ capacity' = Append(capacity, queue_size)
        /\ items' = Append(items, [j \in 0 .. queue_size - 1 |-> NULL])
        /\ head' = Append(head, 0)
        /\ tail' = Append(tail, 0)
        /\ count' = Append(count, 0)
        /\ finished' = Append(finished, FALSE)
        /\ signaled' = Append(signaled, FALSE)
        /\ waiting' = Append(waiting, {})
        /\ name' = Append(name, nm)
        /\ next_place_work' = Append(next_place_work, NoNext)
        /\ initialized' = Append(initialized, TRUE)
        /\ putLog' = Append(putLog, <<>>)
        /\ getLog' = Append(getLog, <<>>)
        /\ finSnap' = Append(finSnap, NoSnap)
        /\ pc' = pc @@ (c :> "ret")
        /\ at' = at @@ (c :> "loop")
        /\ tq' = tq @@ (c :> c)
        /\ new_item' = new_item @@ (c :> NULL)
        /\ ret' = [ret EXCEPT ![Driver] = NULL] @@ (c :> NULL)
        /\ g_context' = [g_context EXCEPT ![Image] = c]
        /\ UNCHANGED handle

UnitInit ==
    /\ UnitCalls
    /\ Len(name) < test.inits
    \* set_proc_cfg is called once, before the first common_plugin_init
    /\ \E nm \in UnitNames, queue_size \in 0 .. MaxQueueSize :
         /\ name # <<>> => nm = name[1]
         /\ common_plugin_init(nm, queue_size)
    /\ UNCHANGED <<dvars, nPut, nOps, nStarted, monLog, argv, exit_code, g_sink>>

\* plugin_attach(sink_next), lines 244-248
UnitAttach ==
    /\ UnitCalls
    /\ next_place_work' = IF g_context[Image] # NoContext
                          THEN [next_place_work EXCEPT ![g_context[Image]] = Sink]
                          ELSE next_place_work
    /\ UNCHANGED <<qvars, tvars, name, initialized, handle, dvars, putLog, getLog, finSnap,
                   nPut, nOps, nStarted, monLog, g_context, argv, exit_code, g_sink>>

\* plugin_place_work(str), lines 215-237
UnitPlaceWork ==
    /\ UnitCalls
    /\ nPut < test.placed
    /\ nPut' = nPut + 1
    /\ \E str \in UnitLines : plugin_place_work(Driver, Image, str)
    /\ UNCHANGED <<at, svars, dvars, getLog, finSnap, nOps, nStarted, monLog, g_context, argv,
                   exit_code, g_sink>>

\* plugin_wait_finished(), lines 256-267; it returns NULL when
\* consumer_producer_wait_finished returns 0
UnitWaitFinished ==
    /\ UnitCalls
    /\ IF not_initialized(Image) THEN
            /\ ret' = [ret EXCEPT ![Driver] = NotInitialized]
            /\ UNCHANGED <<qvars, pc, tq>>
       ELSE wait_finished_cs(Driver, g_context[Image], TRUE)
    /\ UNCHANGED <<at, new_item, svars, dvars, putLog, getLog, finSnap, nPut, nOps, nStarted,
                   monLog, g_context, argv, exit_code, g_sink>>

\* plugin_fini() without the return of lines 188-190: the call goes on to the join
UnitFini_unchecked ==
    /\ UnitCalls
    /\ IF not_initialized(Image) THEN UNCHANGED <<qvars, finSnap>>
       ELSE signal_finished_cs(g_context[Image])
    /\ Goto(Driver, "join")
    /\ UNCHANGED <<pc, tq, new_item, ret, svars, dvars, putLog, getLog, nPut, nOps, nStarted,
                   monLog, g_context, argv, exit_code, g_sink>>

\* plugin_fini(), lines 187-193: the check, then signal_finished on the queue
UnitFini ==
    /\ UnitCalls
    /\ IF not_initialized(Image) THEN
            /\ ret' = [ret EXCEPT ![Driver] = NotInitialized]
            /\ UNCHANGED <<qvars, at, finSnap>>
       ELSE
            /\ signal_finished_cs(g_context[Image])
            /\ Goto(Driver, "join")
            /\ UNCHANGED ret
    /\ UNCHANGED <<pc, tq, new_item, svars, dvars, putLog, getLog, nPut, nOps, nStarted, monLog,
                   g_context, argv, exit_code, g_sink>>

\* lines 196-206 without the pthread_join of line 196
UnitJoin_no_join ==
    /\ At(Driver, "join")
    /\ signal_finished_cs(g_context[Image])
    /\ initialized' = [initialized EXCEPT ![g_context[Image]] = FALSE]
    /\ g_context' = [g_context EXCEPT ![Image] = NoContext]
    /\ ret' = [ret EXCEPT ![Driver] = NULL]
    /\ Goto(Driver, "test")
    /\ UNCHANGED <<pc, tq, new_item, name, next_place_work, handle, dvars, putLog, getLog,
                   nPut, nOps, nStarted, monLog, argv, exit_code, test, g_sink>>

\* plugin_fini(), lines 196-206: pthread_join returns once the worker has
\* returned; then consumer_producer_destroy, the context is freed and
\* g_context = NULL
UnitJoin ==
    /\ At(Driver, "join")
    /\ pc[g_context[Image]] = "exit"
    /\ signal_finished_cs(g_context[Image])
    /\ initialized' = [initialized EXCEPT ![g_context[Image]] = FALSE]
    /\ g_context' = [g_context EXCEPT ![Image] = NoContext]
    /\ ret' = [ret EXCEPT ![Driver] = NULL]
    /\ Goto(Driver, "test")
    /\ UNCHANGED <<pc, tq, new_item, name, next_place_work, handle, dvars, putLog, getLog,
                   nPut, nOps, nStarted, monLog, argv, exit_code, test, g_sink>>

UnitStep ==
    \/ UnitInit
    \/ UnitAttach
    \/ UnitPlaceWork
    \/ UnitWaitFinished
    \/ UnitFini
    \/ UnitJoin
    \/ PutWake(Driver)
    \/ WaitFinishedWake(Driver)

\* the worker of context c; its forward handle, the sink, never blocks
UnitWorkerStep(c) ==
    \/ WorkerGet(c)
    \/ WorkerHandle(c)
    \/ WorkerEndMarker(c)
    \/ WorkerFinal(c)
    \/ GetWake(c)

NextP ==
    \/ UnitStep
    \/ \E c \in 1 .. MaxInits : UnitWorkerStep(c)
    \/ \E t \in 0 .. MaxInits : SpuriousWakeup(t)

SpecP == InitUnit /\ [][NextP]_vars

\* scheduling is fair: the test thread and every worker run whenever they can
FairSpecP ==
    /\ SpecP
    /\ WF_vars(UnitStep)
    /\ \A c \in 1 .. MaxInits : WF_vars(UnitWorkerStep(c))

\* ------------------------------------------------------- queue-level claims
\* the puts that stored their item, in the order they stored it
Stored(k) == SelectSeq(putLog[k], LAMBDA e : e[3] = NULL)

\* the strings stored by put, in the order they were stored
PutItems(k) == [i \in 1 .. Len(Stored(k)) |-> Stored(k)[i][2]]

\* the values returned by get, in the order they were returned
GotValues(k) == [i \in 1 .. Len(getLog[k]) |-> getLog[k][i][2]]

\* the strings (not NULL) returned by get, in the order they were returned
GotItems(k) == SelectSeq(GotValues(k), LAMBDA v : v # NULL)

Putters(k) == {Stored(k)[i][1] : i \in 1 .. Len(Stored(k))}
Getters(k) == {getLog[k][i][1] : i \in 1 .. Len(getLog[k])}

IsPrefix(s, u) == Len(s) <= Len(u) /\ \A i \in 1 .. Len(s) : s[i] = u[i]

\* C6: with one producer thread and one consumer thread, get returns the
\* items in the order the producer put them: what has been returned so far
\* is the beginning of what has been stored, and the producer's items come
\* out in the order of its calls (the n-th call puts a string of length n).
C6_FifoSingleProducerConsumer ==
    (Cardinality(Putters(1)) <= 1 /\ Cardinality(Getters(1)) <= 1) =>
        /\ IsPrefix(GotItems(1), PutItems(1))
        /\ \A i, j \in 1 .. Len(GotItems(1)) :
               i < j => Len(GotItems(1)[i]) < Len(GotItems(1)[j])

\* one producer put more items than the queue holds and one other thread got them all
C6_Witness ==
    /\ capacity[1] = 2
    /\ Len(GotItems(1)) = 3
    /\ Cardinality(Putters(1)) = 1 /\ Cardinality(Getters(1)) = 1
    /\ Putters(1) # Getters(1)

\* C7: in every reachable state the item count of every queue lies between
\* 0 and the queue's capacity.
C7_CountWithinCapacity ==
    \A k \in DOMAIN count : 0 <= count[k] /\ count[k] <= capacity[k]

\* the queue is full, one producer sleeps on it and finished has been signalled by another thread
C7_Witness ==
    /\ capacity[1] = 2 /\ count[1] = 2 /\ finished[1]
    /\ \E t \in DOMAIN pc : pc[t] = "put_wait"

\* a consumer_producer_put on queue k returns in this step
PutReturns(k) == Len(putLog'[k]) = Len(putLog[k]) + 1

\* the put that returns in this step
ReturnedPut(k) == putLog'[k][Len(putLog'[k])]

\* the put on queue k that returns in this step fails with error e, changes
\* nothing in the queue and has released its duplicate
PutRejected(k, e) ==
    /\ ReturnedPut(k)[3] = e
    /\ ret'[ReturnedPut(k)[1]] = e
    /\ new_item'[ReturnedPut(k)[1]] = NULL
    /\ UNCHANGED <<count, head, tail, items>>

\* entry i of log is the return of an operation whose thread was asleep in
\* it when finished was set: the thread is one of the sleepers of the
\* snapshot and this is its first return after the first n entries
SleptThroughFinish(log, n, sleepers, i) ==
    /\ i > n
    /\ log[i][1] \in sleepers
    /\ \A j \in n + 1 .. i - 1 : log[j][1] # log[i][1]

\* C8 as stated: once finished is set, every put that returns fails with
\* 'Queue finished' and leaves count, head, tail and the items unchanged.
C8_PutAfterFinishRejected ==
    [][\A k \in DOMAIN finished :
          (finished[k] /\ PutReturns(k)) => PutRejected(k, QueueFinished)]_vars

\* C8 amended: the same for every queue of capacity >= 1; a queue of
\* capacity 0 rejects the put with 'Queue has zero capacity' instead, also
\* leaving the queue unchanged and releasing the duplicate.
C8_PutAfterFinishRejectedAmended ==
    [][\A k \in DOMAIN finished :
          (finished[k] /\ PutReturns(k)) =>
              PutRejected(k, IF capacity[k] >= 1 THEN QueueFinished ELSE ZeroCapacity)]_vars

\* one producer that slept on the full queue and one that called put on a
\* queue with a free slot have both been rejected with 'Queue finished'
C8_Witness ==
    /\ finished[1] /\ count[1] < capacity[1]
    /\ \E i, j \in finSnap[1].puts + 1 .. Len(putLog[1]) :
        /\ putLog[1][i][3] = QueueFinished /\ SleptThroughFinish(putLog[1], finSnap[1].puts, finSnap[1].putSleepers, i)
        /\ putLog[1][j][3] = QueueFinished /\ ~SleptThroughFinish(putLog[1], finSnap[1].puts, finSnap[1].putSleepers, j)

\* the values returned by get since finished was first set
GotAfterFinish(k) == SubSeq(GotValues(k), finSnap[k].gets + 1, Len(getLog[k]))

\* C9: the gets that return after signal_finished return the items that
\* were pending at that moment, each once and in FIFO order, and NULL only
\* after all of them.
C9_FinishDrainsPending ==
    finished[1] =>
        \A i \in 1 .. Len(GotAfterFinish(1)) :
            GotAfterFinish(1)[i] =
                IF i <= Len(finSnap[1].pending) THEN finSnap[1].pending[i] ELSE NULL

\* finished was signalled with two items pending; both were returned and then NULL
C9_Witness ==
    /\ finished[1]
    /\ Len(finSnap[1].pending) = 2
    /\ Len(GotAfterFinish(1)) = 3
    /\ GotAfterFinish(1)[3] = NULL

\* finished was signalled on queue k while it held no item
FinishedOnEmpty(k) == finished[k] /\ finSnap[k].pending = <<>>

\* C10: after signal_finished on a queue with no pending items, (a) no
\* get goes to sleep and every get that returns returns NULL, (b) every
\* consumer that sleeps in get is woken and returns NULL, and (c) every
\* wait_finished returns.
C10_FinishOnEmpty ==
    /\ [][FinishedOnEmpty(1) =>
            /\ \A t \in Clients : pc'[t] = "get_wait" => pc[t] = "get_wait"
            /\ Len(getLog'[1]) > Len(getLog[1]) => getLog'[1][Len(getLog'[1])][2] = NULL]_vars
    /\ \A t \in Clients :
            (pc[t] = "get_wait" /\ FinishedOnEmpty(1)) ~> (pc[t] = "ret" /\ ret[t] = NULL)
    /\ \A t \in Clients :
            (pc[t] = "wf_wait" /\ FinishedOnEmpty(1)) ~> (pc[t] = "ret" /\ ret[t] = Success)

\* a consumer that slept on the empty queue has returned NULL after the
\* signal, and a wait_finished called after it has returned
C10_Witness ==
    /\ FinishedOnEmpty(1)
    /\ \E t, u \in Clients :
        /\ t # u
        /\ pc[t] = "ret" /\ ret[t] = NULL
        /\ getLog[1] # <<>>
        /\ getLog[1][Len(getLog[1])] = <<t, NULL>>
        /\ SleptThroughFinish(getLog[1], finSnap[1].gets, finSnap[1].getSleepers, Len(getLog[1]))
        /\ pc[u] = "ret" /\ ret[u] = Success

\* every slot of queue k is occupied
Full(k) == count[k] = capacity[k]

\* queue k holds no item
Empty(k) == count[k] = 0

\* some thread is inside consumer_producer_put on queue k, asleep or woken
PutWaits(k) == \E t \in DOMAIN pc : pc[t] = "put_wait" /\ tq[t] = k

\* what a step may do to queue k while it is full and not finished: no put
\* returns, tail stays, and the stored items change only by a get that
\* removes the head item
Backpressure(k) ==
    /\ putLog'[k] = putLog[k]
    /\ tail'[k] = tail[k]
    /\ \/ Pending(k)' = Pending(k)
       \/ /\ Len(getLog'[k]) = Len(getLog[k]) + 1
          /\ Pending(k)' = Tail(Pending(k))

\* while a producer is inside put and the queue has a free slot and is not
\* finished, the slot gets filled, or the producer returns, or finished is set
BlockedPutProceeds ==
    (PutWaits(1) /\ ~Full(1) /\ ~finished[1])
        ~> (Full(1) \/ finished[1] \/ ~PutWaits(1))

\* C11 as stated: while a queue is full and not finished, no put on it
\* returns and no stored item is overwritten or dropped; once a get has
\* freed a slot a blocked put succeeds.
C11_Backpressure ==
    /\ [][\A k \in DOMAIN count : (Full(k) /\ ~finished[k]) => Backpressure(k)]_vars
    /\ BlockedPutProceeds

\* C11 amended: the same for every queue of capacity >= 1 (on a queue of
\* capacity 0, whose count equals its capacity, put returns at once with
\* 'Queue has zero capacity').
C11_BackpressureAmended ==
    /\ [][\A k \in DOMAIN count :
            (capacity[k] >= 1 /\ Full(k) /\ ~finished[k]) => Backpressure(k)]_vars
    /\ BlockedPutProceeds

\* a put called before another one has stored its item after it: it slept
\* on the full queue and succeeded once a get had freed a slot
C11_Witness ==
    /\ capacity[1] >= 1 /\ ~finished[1]
    /\ \E i, j \in 1 .. Len(PutItems(1)) :
           i < j /\ Len(PutItems(1)[i]) > Len(PutItems(1)[j])

\* some thread is inside consumer_producer_get on queue k, asleep or woken
GetWaits(k) == \E t \in DOMAIN pc : pc[t] = "get_wait" /\ tq[t] = k

\* a step in which a thread that was blocked in get on queue k returns
BlockedGetReturns(k) ==
    \E t \in DOMAIN pc : pc[t] = "get_wait" /\ tq[t] = k /\ pc'[t] = "ret"

\* a put that stores an item wakes every thread asleep on the queue
PutWakesAll(k) ==
    (Len(putLog'[k]) > Len(putLog[k]) /\ count'[k] > count[k]) => waiting'[k] = {}

\* a blocked get that returns while finished is not set returns the item at
\* the head of the queue
BlockedGetTakesHead(k) ==
    (BlockedGetReturns(k) /\ ~finished[k]) =>
        /\ ~Empty(k)
        /\ getLog'[k] = Append(getLog[k], <<getLog'[k][Len(getLog'[k])][1], Pending(k)[1]>>)
        /\ Pending(k)' = Tail(Pending(k))

\* while a consumer is inside get and the queue holds an item, the item is
\* taken or the consumer returns
BlockedGetProceeds == (GetWaits(1) /\ ~Empty(1)) ~> (Empty(1) \/ ~GetWaits(1))

\* C12 as stated: while a queue is empty and not finished no get on it
\* returns; a put wakes the blocked consumers, and a blocked consumer
\* returns the item that was put.
C12_BlockingGet ==
    /\ [][\A k \in DOMAIN count :
            /\ (Empty(k) /\ ~finished[k]) => getLog'[k] = getLog[k]
            /\ PutWakesAll(k)
            /\ BlockedGetTakesHead(k)]_vars
    /\ BlockedGetProceeds

\* C12 amended: the same for every queue of capacity >= 1 (on a queue of
\* capacity 0 get returns NULL at once).
C12_BlockingGetAmended ==
    /\ [][\A k \in DOMAIN count :
            /\ (capacity[k] >= 1 /\ Empty(k) /\ ~finished[k]) => getLog'[k] = getLog[k]
            /\ PutWakesAll(k)
            /\ BlockedGetTakesHead(k)]_vars
    /\ BlockedGetProceeds

\* the first call was a get by client 0 and the only other call a put by
\* client 1: the get found the queue empty, slept, and returned the item
C12_Witness ==
    /\ capacity[1] >= 1 /\ ~finished[1]
    /\ nPut = 1 /\ nOps = 1
    /\ putLog[1] = <<<<1, Payload(1), NULL>>>>
    /\ getLog[1] = <<<<0, Payload(1)>>>>
    /\ pc[0] = "ret" /\ ret[0] = Payload(1)

\* signal_finished was called on the clients' queue after every put called
\* so far had returned, and no put has been called since
ProducersDone == finished[1] => nPut = finSnap[1].puts

\* no string was stored twice
StoredOnce(k) == \A i, j \in 1 .. Len(PutItems(k)) : i # j => PutItems(k)[i] # PutItems(k)[j]

\* the items returned by get are the first of the stored items, each
\* returned by one get, and the others are still in the queue
ReceivedOnce(k) ==
    /\ IsPrefix(GotItems(k), PutItems(k))
    /\ Len(PutItems(k)) = Len(GotItems(k)) + count[k]

\* once some get has returned NULL every stored item has been received
NullAfterAll(k) ==
    (\E i \in 1 .. Len(GotValues(k)) : GotValues(k)[i] = NULL) => GotItems(k) = PutItems(k)

\* C13: with several threads putting and getting on one queue and
\* signal_finished called after the puts have returned: no put is refused
\* with 'Queue finished', every stored item is returned by exactly one get
\* (to one consumer, once), a get returns NULL only when everything stored
\* has been received, so the total received equals the total put, and every
\* consumer inside get after the signal returns; a get on the finished,
\* drained queue returns NULL, which stops the consumer.
C13_EveryItemOnce ==
    /\ [](ProducersDone =>
            /\ \A i \in 1 .. Len(putLog[1]) : putLog[1][i][3] # QueueFinished
            /\ StoredOnce(1)
            /\ ReceivedOnce(1)
            /\ NullAfterAll(1))
    /\ [][(ProducersDone /\ finished[1] /\ Empty(1) /\ Len(getLog'[1]) > Len(getLog[1])) =>
            getLog'[1][Len(getLog'[1])][2] = NULL]_vars
    /\ \A t \in Clients :
            (ProducersDone /\ finished[1] /\ pc[t] = "get_wait") ~> (pc[t] = "ret")

\* one client put an item, the other one received it, signal_finished was
\* called after the put, and both clients then got NULL
C13_Witness ==
    /\ capacity[1] >= 1 /\ finished[1] /\ ProducersDone
    /\ putLog[1] = <<<<0, Payload(1), NULL>>>>
    /\ Len(getLog[1]) = 3
    /\ getLog[1][1] = <<1, Payload(1)>>
    /\ {getLog[1][2], getLog[1][3]} = {<<0, NULL>>, <<1, NULL>>}
    /\ \A t \in Clients : pc[t] = "ret"

\* the strings stored by producer p, in the order they were stored
PutOf(p, k) ==
    LET own == SelectSeq(Stored(k), LAMBDA e : e[1] = p)
    IN [i \in 1 .. Len(own) |-> own[i][2]]

\* the strings stored by producer p that get has returned, in the order
\* they were returned
GotOf(p, k) ==
    SelectSeq(GotItems(k),
              LAMBDA x : \E i \in 1 .. Len(Stored(k)) : Stored(k)[i] = <<p, x, NULL>>)

\* C14: the items of each producer are dequeued in the order that producer
\* put them: what has been returned of a producer's items is the beginning
\* of what it stored, and it stored them in the order of its calls (the
\* n-th call of put passes a string of length n).
C14_PerProducerOrder ==
    \A p \in Clients :
        /\ IsPrefix(GotOf(p, 1), PutOf(p, 1))
        /\ \A i, j \in 1 .. Len(PutOf(p, 1)) : i < j => Len(PutOf(p, 1)[i]) < Len(PutOf(p, 1)[j])

\* two producers have stored items, in another order than their puts were
\* called, and two items of one producer have been returned
C14_Witness ==
    /\ Cardinality(Putters(1)) = 2
    /\ \E i, j \in 1 .. Len(PutItems(1)) : i < j /\ Len(PutItems(1)[i]) > Len(PutItems(1)[j])
    /\ \E p \in Clients : Len(GotOf(p, 1)) = 2

\* the clients' queue was initialized with capacity 0
ZeroQueue == capacity[1] = 0

\* a call of signal_finished: the only call that returns nothing and leaves
\* the log of get alone
SignalFinishedStep == nOps' = nOps + 1 /\ UNCHANGED <<pc, ret, getLog>>

C16_SignalFinishedIdempotent ==
    /\ [][\A k \in DOMAIN finished : finished[k] => finished'[k]]_vars
    /\ [][SignalFinishedStep =>
            /\ finished'[1]
            /\ UNCHANGED <<capacity, items, head, tail, count, tvars, putLog, getLog>>
            /\ finished[1] => UNCHANGED qvars]_vars

\* signal_finished has been called three times, after a put and a get:
\* all four calls counted by nOps have returned, one of them is the get,
\* and none is a wait_finished (no get or put was called after the first
\* signal, so the 0 it returns would still be in ret)
C16_Witness ==
    /\ finished[1] /\ capacity[1] >= 1
    /\ nOps = 4 /\ Len(getLog[1]) = 1 /\ finSnap[1].gets = 1
    /\ Len(putLog[1]) = nPut /\ nPut >= 1
    /\ \A i \in 1 .. Len(putLog[1]) : putLog[1][i][3] = NULL
    /\ \A t \in Clients : pc[t] = "ret" /\ ret[t] # Success

\* ---------------------------------------------------------- monitor claims
\* the kinds of the calls and returns logged so far
Ops(log) == [i \in 1 .. Len(log) |-> log[i][1]]

\* monitor_signal has been called and monitor_reset has not been called since
SignalStands(log) ==
    \E i \in 1 .. Len(log) :
        Ops(log)[i] = "signal" /\ \A j \in i + 1 .. Len(log) : Ops(log)[j] # "reset"

\* thread t calls monitor_wait in this step
WaitCalled(t) ==
    /\ pc[t] = "ret"
    /\ Len(monLog') > Len(monLog)
    /\ monLog'[Len(monLog) + 1][1] = "wait"
    /\ monLog'[Len(monLog) + 1][2] = t

\* the monitor_wait of thread t returns 0 in this step
WaitReturns(t) == pc'[t] = "ret" /\ ret'[t] = Success /\ t \notin waiting'[1]

\* C17: when monitor_signal has been called before any monitor_wait (and
\* nothing else has been called), the signal is not lost: the first
\* monitor_wait returns 0 without blocking.
C17_SignalBeforeWait ==
    [][\A t \in Clients :
          (monLog # <<>> /\ (\A i \in 1 .. Len(monLog) : Ops(monLog)[i] = "signal")
              /\ WaitCalled(t)) => WaitReturns(t)]_vars

\* the first call was a monitor_signal and the monitor_wait after it has returned 0
C17_Witness ==
    /\ monLog = <<<<"signal">>, <<"wait", 0>>, <<"return", 0>>>>
    /\ pc[0] = "ret" /\ ret[0] = Success

\* C18: while a monitor_signal stands (no monitor_reset since), every
\* monitor_wait, of any thread, returns 0 without blocking and leaves the
\* monitor signaled; while none stands (after a monitor_reset), a
\* monitor_wait blocks, and no monitor_wait returns before the next
\* monitor_signal.
C18_ManualResetSticky ==
    [][\A t \in Clients :
          /\ (SignalStands(monLog) /\ WaitCalled(t)) => (WaitReturns(t) /\ signaled'[1])
          /\ (~SignalStands(monLog) /\ WaitCalled(t)) => pc'[t] = "mon_wait"
          /\ (pc[t] = "mon_wait" /\ pc'[t] = "ret") => SignalStands(monLog)]_vars

\* after a monitor_signal a wait of each thread returned at once; after
\* the monitor_reset that followed, the next wait is blocked
C18_Witness ==
    /\ Ops(monLog) = <<"signal", "wait", "return", "wait", "return", "reset", "wait">>
    /\ monLog[2][2] # monLog[4][2]
    /\ \E t \in Clients : pc[t] = "mon_wait" /\ t \in waiting[1]

\* a step of monitor_signal wakes every thread asleep on the monitor
SignalWakesAll ==
    (Len(monLog') > Len(monLog) /\ monLog'[Len(monLog) + 1][1] = "signal") => waiting'[1] = {}

\* C19 as stated: a monitor_signal wakes all the threads blocked in
\* monitor_wait, and each of these waits eventually returns.
C19_BroadcastWakeup ==
    /\ [][SignalWakesAll]_vars
    /\ \A t \in Clients : (pc[t] = "mon_wait" /\ SignalStands(monLog)) ~> (pc[t] = "ret")

\* C19 amended: each of these waits eventually returns unless
\* monitor_reset is called before it has returned.
C19_BroadcastWakeupAmended ==
    /\ [][SignalWakesAll]_vars
    /\ \A t \in Clients :
            (pc[t] = "mon_wait" /\ SignalStands(monLog))
                ~> (pc[t] = "ret" \/ ~SignalStands(monLog))

\* two threads were blocked in monitor_wait, monitor_signal was called
\* once, and both waits have returned 0
C19_Witness ==
    /\ Ops(monLog) = <<"wait", "wait", "signal", "return", "return">>
    /\ \A t \in Clients : t <= 1 => (pc[t] = "ret" /\ ret[t] = Success)
    /\ monLog[1][2] # monLog[2][2]

\* the state of the stage instance (g_context and its queue) of image c
Instance(c) ==
    <<capacity[c], items[c], head[c], tail[c], count[c], finished[c], signaled[c],
      initialized[c], next_place_work[c]>>

\* the driver takes a step
DriverMoves ==
    pc'[Driver] # pc[Driver] \/ at'[Driver] # at[Driver] \/ idx' # idx \/ pos' # pos

\* the occurrence in the stage list whose functions the driver is calling:
\* place_work of the first one, wait_finished and fini of number idx
DriverTarget == IF at[Driver] = "read" THEN 1 ELSE idx

\* the worker of image c takes a step
WorkerMoves(c) == pc'[c] # pc[c] \/ at'[c] # at[c]

\* what the worker of image c hands on for the item x it has dequeued
HandedOn(c, x) == IF is_end_marker(x) THEN x ELSE process_function(name[c], x)

\* what the worker of image c is due to hand on for all it has dequeued
DueOut(c) ==
    SelectSeq([i \in 1 .. Len(GotItems(c)) |-> HandedOn(c, GotItems(c)[i])],
              LAMBDA r : r # NULL)

\* what the worker of image c has handed on so far: the strings it has
\* placed into the next instance, or printed when there is none
Out(c) ==
    IF next_place_work[c] # NoNext
    THEN LET own == SelectSeq(putLog[next_place_work[c]], LAMBDA e : e[1] = c)
         IN [i \in 1 .. Len(own) |-> own[i][2]]
    ELSE LET own == SelectSeq(stdout, LAMBDA e : e # Shutdown)
         IN [i \in 1 .. Len(own) |-> own[i][2]]

\* C20: every occurrence of a name in the stage list has an image, and so
\* a context, a queue and a worker, of its own, attached to the one of the
\* next occurrence; the driver's place_work, wait_finished and fini of one
\* occurrence leave the state of every other instance alone, a worker
\* changes only its own instance and the queue it forwards to; and every
\* instance applies the transformation to each item it dequeues and hands
\* the result on, so that an item that goes through r occurrences of a
\* name is transformed r times.
C20_IndependentInstances ==
    /\ [](/\ \A i, j \in Stages : i # j => handle[i] # handle[j]
          /\ \A i \in Stages : initialized[handle[i]] =>
                next_place_work[handle[i]] = IF i < NumStages THEN handle[i + 1] ELSE NoNext
          /\ \A c \in Stages :
                /\ IsPrefix(Out(c), DueOut(c))
                /\ Len(DueOut(c)) <= Len(Out(c)) + 1)
    /\ [][/\ DriverMoves =>
                \A c \in Stages :
                    (DriverTarget \notin Stages \/ c # handle[DriverTarget]) =>
                        Instance(c)' = Instance(c)
          /\ \A w \in Stages : WorkerMoves(w) =>
                \A c \in Stages \ {w, next_place_work[w]} : Instance(c)' = Instance(c)]_vars

\* the stage list names uppercaser twice, and the line "ab" has gone
\* through both instances and has been printed by the second one
C20_Witness ==
    /\ name = <<"uppercaser", "uppercaser">>
    /\ \E i \in 1 .. Len(input) : input[i] = <<"a", "b">>
    /\ GotItems(1) # <<>> /\ GotItems(2) # <<>>
    /\ GotItems(1)[1] = <<"a", "b">> /\ GotItems(2)[1] = <<"A", "B">>
    /\ stdout # <<>> /\ stdout[1] = <<"uppercaser", <<"A", "B">>>>

\* ---------------------------------------------------- pipeline claims
\* the driver has returned from main and every worker thread has returned
Terminated == \A t \in DOMAIN pc : pc[t] = "exit"

\* the last line read from standard input is <END>; the driver reads no further
EndsWithEnd == Len(input) > 0 /\ input[Len(input)] = END

\* 'Pipeline shutdown complete.' is the last line of standard output and occurs once
ShutdownOnceLast ==
    /\ Len(stdout) > 0
    /\ stdout[Len(stdout)] = Shutdown
    /\ \A i \in 1 .. Len(stdout) - 1 : stdout[i] # Shutdown

\* C1: when the last line of standard input is <END>, under fair
\* scheduling the run reaches, and stays in, a state where every worker has
\* exited, the driver has returned from every plugin_wait_finished and
\* plugin_fini call and from main, and 'Pipeline shutdown complete.' has
\* been written exactly once, as the last line of standard output.  The
\* driver reads nothing after <END>, so EndsWithEnd stays true once it is.
C1_ShutdownCompletes ==
    /\ [][EndsWithEnd => EndsWithEnd']_vars
    /\ <>[](EndsWithEnd => Terminated /\ ShutdownOnceLast)

\* a two-stage run that read a line and then <END> has terminated
C1_Witness ==
    /\ NumStages = 2 /\ Len(input) = 2 /\ EndsWithEnd
    /\ Terminated /\ ShutdownOnceLast
    /\ Len(stdout) >= 2

\* position of the first <END> line of standard input; Len(input) + 1 if there is none
FirstEnd ==
    IF \E i \in 1 .. Len(input) : input[i] = END
    THEN CHOOSE i \in 1 .. Len(input) : input[i] = END /\ \A j \in 1 .. i - 1 : input[j] # END
    ELSE Len(input) + 1

RECURSIVE ThroughStages(_, _)
\* the string s after the transformations of stages 1 .. n
ThroughStages(s, n) ==
    IF n = 0 THEN s
    ELSE IF ThroughStages(s, n - 1) = NULL THEN NULL
    ELSE process_function(name[n], ThroughStages(s, n - 1))

\* what the terminal stage is due to receive: the lines read before <END>,
\* transformed by the stages before it
Expected == [i \in 1 .. FirstEnd - 1 |-> ThroughStages(input[i], NumStages - 1)]

\* C2: the lines the driver enqueued before the sentinel reach the terminal
\* stage exactly once and in input order: what the terminal worker has
\* dequeued is always the beginning of the expected sequence followed by
\* the sentinel (no duplication, no reordering); no item forwarded by a
\* worker is refused by the next stage's queue, and once the run has
\* terminated the terminal worker has dequeued all of the expected
\* sequence (no loss), provided no transformation drops an item.
C2_EndToEndOrder ==
    (\A i \in 1 .. Len(Expected) : Expected[i] # NULL) =>
        /\ IsPrefix(GotItems(NumStages), Append(Expected, END))
        /\ \A k \in Stages \ {1} : \A i \in 1 .. Len(putLog[k]) :
               is_end_marker(putLog[k][i][2]) \/ putLog[k][i][3] = NULL
        /\ Terminated => IsPrefix(Expected, GotItems(NumStages))

\* C3: the terminal stage never writes the sentinel <END> to standard output.
C3_SentinelNotPrinted ==
    \A i \in 1 .. Len(stdout) : stdout[i][2] # END

\* the driver has left the read loop and has called plugin_wait_finished
PastReadLoop ==
    \/ pc[Driver] \in {"wf_wait", "exit"}
    \/ at[Driver] \in {"fini", "join", "print"}
    \/ at[Driver] = "wait" /\ idx > 1

\* C4: when standard input ends without an <END> line, the driver has
\* enqueued the sentinel into stage 0 by the time it waits for the stages.
C4_SentinelAtEndOfInput ==
    (FirstEnd > Len(input) /\ PastReadLoop) =>
        \E i \in 1 .. Len(putLog[1]) :
            putLog[1][i][1] = Driver /\ putLog[1][i][2] = END

\* C5: only the sentinel enqueued by the driver ends a worker: a worker
\* takes the end-marker branch only when it has dequeued the lines read
\* before <END> and, after them, the sentinel; a data item whose
\* transformed payload is "<END>" does not end the downstream worker.
C5_DataNotTakenForSentinel ==
    \A k \in Stages :
        At(k, "end_marker") => Len(getLog[k]) = FirstEnd


\* ---------------------------------------------------- sentinel forwarding
\* the data items stage k is due to receive before the sentinel: the lines
\* read before <END>, transformed by the stages before k, less the dropped ones
DueIn(k) ==
    SelectSeq([i \in 1 .. FirstEnd - 1 |-> ThroughStages(input[i], k - 1)],
              LAMBDA s : s # NULL)

\* the worker of stage k has dequeued an end marker and has handled it (lines 26-33)
SentinelHandled(k) ==
    /\ Len(GotItems(k)) > 0
    /\ is_end_marker(GotItems(k)[Len(GotItems(k))])
    /\ ~At(k, "got")
    /\ pc[k] # "put_wait"

\* what the worker of stage k has handed to the next stage's plugin_place_work
ForwardedBy(k) ==
    LET log == SelectSeq(putLog[next_place_work[k]], LAMBDA e : e[1] = k)
    IN [i \in 1 .. Len(log) |-> log[i][2]]

\* C21: a non-terminal worker that has dequeued the sentinel has forwarded
\* the sentinel string itself (not its transformation) to the next stage
\* exactly once, as the last thing it forwards, and has marked its own queue
\* finished by the time it leaves the loop; so every stage dequeues the
\* sentinel exactly once, as its last item, after all the data items that
\* preceded the sentinel in the stream.
C21_SentinelForwardedOnce ==
    \A k \in Stages :
        /\ (SentinelHandled(k) /\ next_place_work[k] # NoNext) =>
               /\ Len(ForwardedBy(k)) > 0
               /\ ForwardedBy(k)[Len(ForwardedBy(k))] = END
               /\ \A i \in 1 .. Len(ForwardedBy(k)) - 1 : ForwardedBy(k)[i] # END
        /\ (SentinelHandled(k) /\ (At(k, "final") \/ pc[k] = "exit")) => finished[k]
        /\ \A i \in 1 .. Len(GotItems(k)) :
               is_end_marker(GotItems(k)[i]) =>
                   /\ i = Len(GotItems(k))
                   /\ GotItems(k) = Append(DueIn(k), END)

\* -------------------------------------------------------- stage unit claims
\* the image holds a live context: common_plugin_init has succeeded and no
\* plugin_fini has completed since
Live == g_context[Image] # NoContext

\* C22: a common_plugin_init called while the image holds a context that
\* has not been destroyed returns an error, and the first instance stays as
\* it was: g_context still points to it, no context, queue or worker thread
\* is created, and its queue and worker are untouched.
C22_DoubleInitFails ==
    [][(UnitInit /\ Live) =>
          /\ ret'[Driver] # NULL
          /\ g_context' = g_context
          /\ DOMAIN pc' = DOMAIN pc
          /\ UNCHANGED <<qvars, svars, pc, at>>]_vars

\* the test thread calls plugin_place_work, plugin_wait_finished or plugin_fini
InterfaceCall == UnitPlaceWork \/ UnitWaitFinished \/ UnitFini

\* C23: plugin_place_work, plugin_wait_finished and plugin_fini called on a
\* stage that has not been initialized, or has been destroyed, return the
\* error at once (the caller is not left waiting) and change nothing: no
\* queue, context, worker, sink or output is touched.
C23_UninitializedCallsFail ==
    [][(InterfaceCall /\ ~Live) =>
          /\ ret'[Driver] = NotInitialized
          /\ pc'[Driver] = "ret" /\ at'[Driver] = "test"
          /\ UNCHANGED <<qvars, svars, g_context, g_sink, stdout, stderr, putLog, getLog>>
          /\ \A c \in Stages : pc'[c] = pc[c] /\ at'[c] = at[c]]_vars

\* a call has returned the error on a stage that was initialized and then destroyed
C23_Witness ==
    /\ name # <<>> /\ ~Live
    /\ At(Driver, "test")
    /\ ret[Driver] = NotInitialized

\* the context of the image, or the one its last plugin_fini worked on
Current == IF Live THEN g_context[Image] ELSE Len(name)

\* the strings plugin_place_work has stored in context c, transformed, less the dropped ones
Transformed(c) ==
    SelectSeq([i \in 1 .. Len(PutItems(c)) |-> process_function(name[c], PutItems(c)[i])],
              LAMBDA s : s # NULL)

\* what the worker has handed on: the lines it printed while no handle was
\* attached, then the lines the sink recorded once plugin_attach had been called
Delivered == [i \in 1 .. Len(stdout) |-> stdout[i][2]] \o g_sink.lines

\* no end marker has been placed into context c
NoEndPlaced(c) == \A i \in 1 .. Len(putLog[c]) : ~is_end_marker(putLog[c][i][2])

\* plugin_fini has returned NULL for a stage into which no end marker was placed
FiniReturnedWithoutEnd ==
    /\ name # <<>> /\ ~Live
    /\ At(Driver, "test")
    /\ ret[Driver] = NULL
    /\ NoEndPlaced(Current)

\* the test thread is inside plugin_fini, waiting in pthread_join
InFini == at[Driver] = "join"

\* C24: plugin_fini on a running stage into which no sentinel was placed
\* shuts the stage down: at the step in which it returns, every string
\* placed before the call has been dequeued, in order, has been transformed
\* and has been forwarded to the attached handle (or printed) in order, the
\* worker thread has returned and is joined, and the call reports success;
\* and under fair scheduling the call does return.
C24_FiniWithoutEnd ==
    /\ [][(UnitJoin /\ NoEndPlaced(Current)) =>
            /\ GotItems(Current) = PutItems(Current)
            /\ Delivered = Transformed(Current)
            /\ pc[Current] = "exit"
            /\ UNCHANGED <<getLog, putLog, g_sink, stdout, pc>>
            /\ ret'[Driver] = NULL]_vars
    /\ (InFini ~> ~InFini)

\* plugin_fini has returned after two strings were placed and no end
\* marker: both were forwarded to the sink, transformed, in order
C24_Witness ==
    /\ FiniReturnedWithoutEnd
    /\ name[Current] = "p7"
    /\ next_place_work[Current] = Sink
    /\ PutItems(Current) = <<<<"a", "b">>, DROP>>
    /\ g_sink.lines = <<<<"A", "B">>, DROP>>
    /\ ~g_sink.saw_end

\* a plugin_fini has completed and no common_plugin_init has succeeded since
Destroyed == name # <<>> /\ ~Live

\* C25: stage destroy is idempotent: a plugin_fini that completes reports
\* success, whether or not plugin_wait_finished has returned before it, and
\* a plugin_fini called after a completed one reports success too and does
\* nothing more: it joins no thread and releases no queue or context.
C25_DestroyIdempotent ==
    [][/\ UnitJoin => ret'[Driver] = NULL
       /\ (UnitFini /\ Destroyed) =>
              /\ ret'[Driver] = NULL
              /\ at'[Driver] = "test"
              /\ UNCHANGED <<qvars, svars, g_context, pc>>]_vars

\* the strings the worker of context c has dequeued and finished handling
HandledItems(c) ==
    IF At(c, "got") /\ ret[c] # NULL
    THEN SubSeq(GotItems(c), 1, Len(GotItems(c)) - 1)
    ELSE GotItems(c)

\* the data strings among s, transformed by context c, less the dropped ones
TransformedBy(c, s) ==
    LET data == SelectSeq(s, LAMBDA x : ~is_end_marker(x))
    IN SelectSeq([i \in 1 .. Len(data) |-> process_function(name[c], data[i])],
                 LAMBDA x : x # NULL)

\* the sink has returned its error for the string it recorded at index fail_on_index
ErrorReturned ==
    /\ g_sink.fail_on_index >= 0
    /\ Len(g_sink.lines) > g_sink.fail_on_index

\* the worker of context c has handled an end marker
EndHandled(c) == \E i \in 1 .. Len(HandledItems(c)) : is_end_marker(HandledItems(c)[i])

\* the end marker has gone to the sink, or was printed while no handle was attached
EndForwarded(c) == g_sink.saw_end \/ \E i \in 1 .. Len(stdout) : stdout[i] = <<name[c], END>>

\* C26: once the forward handle has returned an error for an item, the
\* worker does not stop: it leaves its loop only on the end marker or on
\* the NULL of a finished, drained queue; every item it has dequeued,
\* before and after the failing one, has been transformed and forwarded, in
\* order; an end marker it has dequeued has been forwarded; and no
\* plugin_place_work call, and no other call of the test thread, has been
\* given the handle's error.
C26_ForwardErrorDoesNotStop ==
    \A c \in Stages :
        (ErrorReturned /\ next_place_work[c] = Sink) =>
            /\ pc[c] = "exit" =>
                   (EndHandled(c) \/ GotValues(c)[Len(GotValues(c))] = NULL)
            /\ Delivered = TransformedBy(c, HandledItems(c))
            /\ EndHandled(c) => EndForwarded(c)
            /\ ret[Driver] # DownstreamError
            /\ \A i \in 1 .. Len(putLog[c]) : putLog[c][i][3] # DownstreamError

\* the sink failed the first of three strings; the two later ones and the
\* end marker were forwarded all the same and every plugin_place_work returned NULL
C26_Witness ==
    /\ g_sink.fail_on_index = 0
    /\ Live /\ next_place_work[Current] = Sink
    /\ stdout = <<>>
    /\ Len(g_sink.lines) = 3
    /\ g_sink.saw_end
    /\ Len(putLog[Current]) = 4
    /\ \A i \in 1 .. 4 : putLog[Current][i][3] = NULL

\* the error lines on standard error that carry the text msg
Reported(msg) == {i \in 1 .. Len(stderr) : stderr[i][Len(stderr[i])] = msg}

\* C27: every error string a forward handle has returned to a worker, for a
\* data item or for the sentinel, has been reported by that worker on
\* standard error by the time the worker takes its next item.
C27_ForwardErrorReported ==
    \A c \in Stages :
        (ErrorReturned /\ next_place_work[c] = Sink /\ ~At(c, "got")) =>
            Reported(DownstreamError) # {}

\* the strings handled by context c for which the transformation returned NULL
Dropped(c) ==
    {i \in 1 .. Len(HandledItems(c)) :
        /\ ~is_end_marker(HandledItems(c)[i])
        /\ process_function(name[c], HandledItems(c)[i]) = NULL}

\* the data strings handed on: the end marker, which the worker prints
\* when no handle is attached, is left out
DeliveredData == SelectSeq(Delivered, LAMBDA x : ~is_end_marker(x))

\* the worker of context c goes from having dequeued the string it to
\* having handled it
Handles(c, it) == WorkerHandle(c) /\ ret[c] = it

\* C28: when the transformation returns NULL for an item, the worker
\* forwards nothing and prints nothing for it and goes on with its loop;
\* what has been forwarded or printed is always the transformed items that
\* were not dropped, in order, so the items before and after a dropped one
\* are delivered in order, and an end marker dequeued after it is still forwarded.
C28_DroppedItem ==
    [][\A c \in Stages :
          /\ \A it \in UnitLines :
                (Handles(c, it) /\ ~is_end_marker(it) /\ process_function(name[c], it) = NULL) =>
                    /\ UNCHANGED <<g_sink, stdout, stderr, qvars, putLog>>
                    /\ at'[c] = "loop" /\ pc'[c] = "ret"
          /\ Dropped(c) # {} =>
                /\ DeliveredData = TransformedBy(c, HandledItems(c))
                /\ EndHandled(c) => EndForwarded(c)]_vars

\* a string was placed before and after "DROP" and the end marker last:
\* the sink has the two strings and the end marker, nothing was printed
C28_Witness ==
    /\ Live /\ name[Current] = "p3" /\ next_place_work[Current] = Sink
    /\ PutItems(Current) = <<<<"a", "b">>, DROP, <<"a", "b">>, END>>
    /\ Dropped(Current) = {2}
    /\ g_sink.lines = <<<<"a", "b">>, <<"a", "b">>>>
    /\ g_sink.saw_end
    /\ stdout = <<>>

\* ------------------------------------------------------- standard output
\* the lines of standard output before the shutdown notice
BeforeShutdown == SubSeq(stdout, 1, Len(stdout) - 1)

\* one line per input line read before <END>, written by the terminal
\* stage: its name and the line as transformed by every stage
ExpectedOutput ==
    [i \in 1 .. FirstEnd - 1 |-> <<name[NumStages], ThroughStages(input[i], NumStages)>>]

\* C29: when the shutdown notice has been written, standard output holds
\* before it exactly one line per non-sentinel input item, in input order,
\* each written by the terminal stage under its name; no other line, and so
\* no line of a non-terminal stage, is on standard output.
C29_OneLinePerItem ==
    /\ \A i \in 1 .. Len(stdout) : stdout[i] = Shutdown \/ stdout[i][1] = name[NumStages]
    /\ (Len(stdout) > 0 /\ stdout[Len(stdout)] = Shutdown) => BeforeShutdown = ExpectedOutput

\* --------------------------------------------------- command-line claims
\* s is a positive integer written in base 10: digits only, not all of them 0
is_positive_integer(s) ==
    /\ Len(s) > 0
    /\ \A i \in 1 .. Len(s) : isdigit(s[i])
    /\ \E i \in 1 .. Len(s) : s[i] # "0"

\* main has gone past the checks of its arguments
ArgsChecked == ~At(Driver, "main")

\* C30: when the queue-size argument is zero, negative or not a number, the
\* driver prints the usage text on standard output, writes nothing on
\* standard error, returns 1, and loads and initializes no stage.
C30_InvalidQueueSize ==
    (Len(argv) >= 2 /\ ~is_positive_integer(argv[1]) /\ ArgsChecked) =>
        /\ exit_code = <<1>>
        /\ stdout = <<Usage>>
        /\ stderr = <<>>
        /\ name = <<>> /\ initialized = <<>>

\* ------------------------------------------------------- start-up claims
\* the stages whose image holds a live context
LiveStages == {i \in DOMAIN handle : g_context[handle[i]] # NoContext}

\* main has returned 1 after a failed load or initialization
FailedExit == exit_code = <<1>>

\* C31: when loading or initializing a stage fails, the driver tears down
\* the stages created before it in reverse order of creation, so that a
\* stage is joined and destroyed only when no stage created after it is
\* still live; it joins every worker thread that was started, and it
\* returns 1 without having read any input.
C31_TeardownInReverse ==
    [][/\ TeardownJoin => \A j \in LiveStages : j <= idx
       /\ FailedExit' =>
            /\ input' = <<>>
            /\ LiveStages' = {}
            /\ \A t \in DOMAIN pc' \ {Driver} : pc'[t] = "exit"]_vars

\* ------------------------------------------------------ sentinel ordering
\* the strings the driver has handed to plugin_place_work of stage 0
PlacedByDriver ==
    LET log == SelectSeq(putLog[handle[1]], LAMBDA e : e[1] = Driver)
    IN [i \in 1 .. Len(log) |-> log[i][2]]

\* the lines the workers have written to standard output
Printed == SelectSeq(stdout, LAMBDA e : e # Shutdown)

\* every put made by worker k, into whatever queue, with its result
PutsOf(k) == [q \in DOMAIN putLog |-> SelectSeq(putLog[q], LAMBDA e : e[1] = k)]

\* C32: the sentinel is the last item any worker processes.  The driver
\* reads and enqueues nothing after the line <END>; a worker dequeues
\* nothing after a sentinel, and once it has handled the sentinel it
\* forwards nothing and prints nothing any more, whatever sits behind the
\* sentinel in its queue.
C32_SentinelLast ==
    [][/\ \A i \in 1 .. Len(input') - 1 : input'[i] # END
       /\ IsPrefix(PlacedByDriver', input')
       /\ \A k \in Stages :
            /\ \A i \in 1 .. Len(getLog'[k]) - 1 : getLog'[k][i][2] # END
            /\ SentinelHandled(k) =>
                 /\ getLog'[k] = getLog[k]
                 /\ PutsOf(k)' = PutsOf(k)
                 /\ next_place_work[k] = NoNext => Printed' = Printed]_vars

\* a worker has handled the sentinel and has returned while an item sits
\* behind the sentinel in its queue
C32_Witness ==
    \E k \in Stages :
        /\ SentinelHandled(k) /\ pc[k] = "exit"
        /\ count[k] > 0

\* ------------------------------------------------- work outside the lock
\* the worker of queue k is between the return of consumer_producer_get and
\* its next call of it: it runs the transformation, or it is blocked in the
\* forward call
Busy(k) == At(k, "got") \/ (k \in DOMAIN pc /\ pc[k] = "put_wait")

\* in this step thread t runs the critical section of consumer_producer_put on queue k
PutRuns(t, k) ==
    /\ t \in DOMAIN pc /\ pc[t] \in {"ret", "put_wait"}
    /\ \/ Len(putLog'[k]) = Len(putLog[k]) + 1 /\ ReturnedPut(k)[1] = t
       \/ pc[t] = "ret" /\ pc'[t] = "put_wait" /\ tq'[t] = k
       \/ pc[t] = "put_wait" /\ tq[t] = k /\ t \notin waiting[k] /\ t \in waiting'[k]

Wired == at[Driver] \notin {"load", "init", "teardown", "teardown_join"}

\* the forward handle of stage i: next_place_work of the context of its image
HandleOf(i) == next_place_work[g_context[handle[i]]]

\* every name of the command line is loaded and every stage is initialized
AllInitialized ==
    /\ NumStages = Len(argv) - 1
    /\ \A i \in Stages : ~not_initialized(handle[i])

\* no plugin_place_work has been called yet
NothingEnqueued == \A q \in DOMAIN putLog : putLog[q] = <<>>

\* C34: once init_plugins has succeeded, the forward handle of every stage
\* but the last is the place_work of the next stage and the last stage has
\* none.  A handle is set only when all stages are initialized and nothing
\* has been enqueued yet, and it never changes afterwards; so no worker of a
\* non-terminal stage handles an item with its handle unset.
C34_ChainWiring ==
    [][/\ Wired' =>
            \A i \in LiveStages' :
                HandleOf(i)' = IF i < NumStages' THEN handle'[i + 1] ELSE NoNext
       /\ (\E c \in DOMAIN next_place_work : next_place_work'[c] # next_place_work[c]) =>
            AllInitialized /\ NothingEnqueued /\ ~Wired
       /\ Wired => next_place_work' = next_place_work
       /\ \A k \in Stages :
            (WorkerHandle(k) /\ ret[k] # NULL /\ k < NumStages) =>
                next_place_work[k] # NoNext]_vars

\* in a pipeline of three stages the second worker has forwarded an item to the third
C34_Witness ==
    /\ Wired /\ NumStages = 3
    /\ \E i \in 1 .. Len(putLog[3]) : putLog[3][i][1] = 2

\* ---------------------------------------------------------------- ownership
\* The strings the runtime allocates for items, each named by the place
\* that allocates it, the queue or worker concerned, and its rank there.

\* the worker of stage k holds the item it dequeued last: it has not reached
\* the free of plugin_common.c:32 or 54
Holding(k) == (At(k, "got") /\ ret[k] # NULL) \/ (k \in DOMAIN pc /\ pc[k] = "put_wait")

\* how many of the first i puts into queue k stored their item
StoredRank(k, i) == Cardinality({j \in 1 .. i : putLog[k][j][3] = NULL})

\* the strings the worker of stage k has dequeued and passed to free
FreedByWorker(k) == Len(GotItems(k)) - (IF Holding(k) THEN 1 ELSE 0)

\* the data items the worker of stage k has transformed into a new string
Outputs(k) ==
    {j \in 1 .. Len(HandledItems(k)) :
        /\ ~is_end_marker(HandledItems(k)[j])
        /\ process_function(name[k], HandledItems(k)[j]) # NULL}

\* str_copy of plugin_place_work (plugin_common.c:226), new_item of
\* consumer_producer_put (consumer_producer.c:83) and the result of the
\* transformation (plugin_common.c:42), for the calls that have returned
Allocated ==
    UNION {{<<site, k, i>> : i \in 1 .. Len(putLog[k]), site \in {"str_copy", "new_item"}}
             : k \in DOMAIN putLog}
    \cup UNION {{<<"result", k, j>> : j \in Outputs(k)} : k \in Stages}

\* the strings passed to free: str_copy when put returned an error
\* (plugin_common.c:232); new_item when put refused it (consumer_producer.c:95,
\* 107), when the worker has handled it (plugin_common.c:32, 54) or when the
\* queue was destroyed with it (consumer_producer.c:59-62); the result when
\* it was printed (plugin_common.c:50)
Released ==
    UNION {{<<"str_copy", k, i>> : i \in {j \in 1 .. Len(putLog[k]) : putLog[k][j][3] # NULL}}
             : k \in DOMAIN putLog}
    \cup UNION {{<<"new_item", k, i>> :
                    i \in {j \in 1 .. Len(putLog[k]) :
                              \/ putLog[k][j][3] # NULL
                              \/ StoredRank(k, j) <= FreedByWorker(k)
                              \/ ~initialized[k]}}
                  : k \in DOMAIN putLog}
    \cup UNION {{<<"result", k, j>> : j \in {i \in Outputs(k) : next_place_work[k] = NoNext}}
                  : k \in Stages}

\* C35: every string the runtime allocated for an item has been released by
\* the time the pipeline has been destroyed and main has returned: none
\* stays allocated.
C35_Ownership ==
    Terminated => Allocated \subseteq Released

\* ------------------------------------------------------------ thread joins
\* the worker threads started so far: pthread_create has succeeded for them
Started == DOMAIN pc \ {Driver}

\* plugin_fini has joined thread t and destroyed its context
Joined(t) == ~initialized[t]

\* C36: every worker thread that is started is joined exactly once before
\* main returns, on the normal path and on the failure paths: a thread is
\* joined only when it has returned and has not been joined before, and
\* when main returns every started thread has returned and is joined.
C36_JoinedExactlyOnce ==
    [][/\ \A t \in Started : (~Joined(t) /\ Joined(t)') => pc[t] = "exit"
       /\ (DriverJoin \/ TeardownJoin) =>
            /\ g_context[handle[idx]] # NoContext
            /\ ~Joined(g_context[handle[idx]])
            /\ \A t \in Started : Joined(t) => Joined(t)'
       /\ exit_code' # <<>> =>
            \A t \in Started' : pc'[t] = "exit" /\ Joined(t)']_vars

\* main has returned 1 after the third initialization failed, and the two
\* workers started before are joined
C36_Witness ==
    /\ FailedExit
    /\ Cardinality(Started) = 2
    /\ \A t \in Started : pc[t] = "exit" /\ Joined(t)

\* ------------------------------------------------------ wait for completion
\* plugin_wait_finished of stage k has returned to the driver
\* (wait_for_completion, part_000:234-243)
WaitReturned(k) ==
    \/ pc[Driver] = "exit"
    \/ at[Driver] \in {"fini", "join", "print"}
    \/ at[Driver] = "wait" /\ (idx > k + 1 \/ (idx = k + 1 /\ pc[Driver] = "ret"))

\* the worker of stage k is done with the first e strings stored in its
\* queue, the last of them being the sentinel: it has dequeued them and no
\* others, has handled each of them, and, if it has a forward handle, the
\* last string it has forwarded is the sentinel
DoneThrough(k, e) ==
    /\ PutItems(k)[e] = END
    /\ \A j \in 1 .. e - 1 : PutItems(k)[j] # END
    /\ GotItems(k) = SubSeq(PutItems(k), 1, e)
    /\ FreedByWorker(k) = e
    /\ next_place_work[k] # NoNext =>
         /\ Len(ForwardedBy(k)) = Len(TransformedBy(k, GotItems(k))) + 1
         /\ ForwardedBy(k)[Len(ForwardedBy(k))] = END

\* C37: in a driver run, when plugin_wait_finished has returned for stage k,
\* the worker of stage k has finished handling every item stored in its
\* queue before the sentinel, each one forwarded, printed or dropped, and
\* has forwarded the sentinel; and once the driver has printed the shutdown
\* notice every worker has returned, so nothing is written after it.
C37_WaitFinishedMeansDone ==
    /\ \A k \in Stages :
         WaitReturned(k) => \E e \in 1 .. Len(PutItems(k)) : DoneThrough(k, e)
    /\ (\E i \in 1 .. Len(stdout) : stdout[i] = Shutdown) =>
         /\ stdout[Len(stdout)] = Shutdown
         /\ \A t \in DOMAIN pc : pc[t] = "exit"

\* the driver has returned from plugin_wait_finished of the second of two
\* stages, which received a data item and then the sentinel
C37_Witness ==
    /\ NumStages = 2 /\ at[Driver] = "wait" /\ WaitReturned(2)
    /\ Len(PutItems(2)) = 2 /\ DoneThrough(2, 2)
    /\ Len(ForwardedBy(1)) = 2

\* ---------------------------------------------------------- circular buffer
\* the items put into queue k and not yet returned by get, in put order
NotYetGot(k) == SubSeq(PutItems(k), Len(GotItems(k)) + 1, Len(PutItems(k)))

\* C38: in a queue of capacity C >= 1, head and tail are always in 0 .. C-1,
\* tail = (head + count) mod C, and the slots head, head+1, ...,
\* head+count-1 (mod C) hold exactly the items that were put and not yet
\* returned by get, in put order.
C38_CircularBuffer ==
    \A k \in DOMAIN capacity :
        capacity[k] >= 1 =>
            /\ head[k] \in 0 .. capacity[k] - 1
            /\ tail[k] \in 0 .. capacity[k] - 1
            /\ tail[k] = (head[k] + count[k]) % capacity[k]
            /\ Pending(k) = NotYetGot(k)

\* a full queue of capacity 2 whose items wrap around the end of the array
C38_Witness ==
    /\ capacity[1] = 2 /\ head[1] = 1 /\ count[1] = 2
    /\ Len(GotItems(1)) = 1

\* ------------------------------------------------------------------ flipper
\* the characters of s in reverse order
Reverse(s) == [i \in 1 .. Len(s) |-> s[Len(s) + 1 - i]]

\* C39: the flipper stage's transformation reverses the order of the
\* characters of its input, so that two flipper stages in a row restore the
\* original string.
C39_FlipperReverses ==
    /\ (At(Driver, "done") /\ NumStages = 1) => stdout = <<<<"flipper", Reverse(input[1])>>>>
    /\ (At(Driver, "done") /\ NumStages = 2) => stdout = <<<<"flipper", input[1]>>>>
====
